---- MODULE Spec2Model ----
(***************************************************************************)
(* A model of the simulation engine of videogame-antigravity:              *)
(*   World    (src/src/game/World.ts)      the tile grid and its generator *)
(*   Player, Bullet, Explosion, Loot ...   (src/src/game/Entities.ts)      *)
(*   Engine   (src/unnamed/part_001)       the tick and damage resolution  *)
(*                                                                         *)
(* Units.  Lengths are world pixels.  Times are centiseconds (the code's   *)
(* seconds times 100), so that every duration of the WEAPONS table is an   *)
(* integer.  Health, shield and damage are hit points.                     *)
(***************************************************************************)
EXTENDS Integers, Sequences, FiniteSets, TLC

VARIABLES
    tiles,          \* World.tiles[x][y]
    wallHealth,     \* World.wallHealth[x][y]
    player,         \* Engine.player
    npcs,           \* Engine.npcs
    bullets,        \* Engine.bullets
    explosions,     \* Engine.explosions
    loot,           \* Engine.loot
    potions,        \* Engine.potions
    swiftHalo,      \* Engine.swiftHalo
    particles,      \* Engine.particles
    gameStartTime,  \* Engine.gameStartTime
    gameEndTime,    \* Engine.gameEndTime
    clock,          \* performance.now(), in centiseconds
    frames,         \* history: the number of loop() calls
    commands,       \* history: the number of calls of the command methods
    winners,        \* history: the onWinner calls of this match
    kills,          \* history: the number of onKill calls of this match
    events          \* history: what the last step did

vars == <<tiles, wallHealth, player, npcs, bullets, explosions, loot, potions, swiftHalo,
          particles, gameStartTime, gameEndTime, clock, frames, commands, winners, kills, events>>

engineVars == <<player, npcs, bullets, explosions, loot, potions, swiftHalo, particles,
                gameStartTime, gameEndTime, clock, frames, commands, winners, kills, events>>

(***************************************************************************)
(* Bounds of the model.                                                    *)
(***************************************************************************)
\* The Engine builds World(50, 50); the model builds World(MapSize, MapSize).
MapSize == 24
\* Math.random() is modelled by NumSeeds pseudo-random streams.
NumSeeds == 20

\* Health, shield, damage and wall durability are counted in units of 1/HP
\* hit point, so that the regeneration of `dt * 2` hit points is a whole
\* number of units for every timestep of DTs.
HP == 5

(***************************************************************************)
(* World.ts                                                                *)
(***************************************************************************)
TILE_SIZE == 40

FLOOR == 0
WALL == 1
CITY_HOUSE_FLOOR == 2
INDESTRUCTIBLE_WALL == 3

TileType == {FLOOR, WALL, CITY_HOUSE_FLOOR, INDESTRUCTIBLE_WALL}

width == MapSize
height == MapSize

Seeds == 0 .. (NumSeeds - 1)

\* The value, in 0..100, of the Math.random() call made at call site `site`
\* for tile (x, y) under the pseudo-random stream `seed`.
Random(seed, site, x, y) ==
    ((x * x * 7 + y * y * 13 + x * y * (seed + 3) + seed * 31 + x * 17 + y * 29
        + site * 11) * (site + seed + 5)) % 101

\* A grid built tile by tile.  (f @@ <<>> is f, computed once.)
Grid(F(_, _)) ==
    [x \in 0 .. (width - 1) |-> ([y \in 0 .. (height - 1) |-> F(x, y)] @@ <<>>)] @@ <<>>

IsSolid(tile) == tile = WALL \/ tile = INDESTRUCTIBLE_WALL

IsBorder(x, y) == x = 0 \/ x = width - 1 \/ y = 0 \/ y = height - 1

\* generateKowloonMap, step 1: noise, the border indestructible.
FillNoise(seed) ==
    LET F(x, y) ==
            IF IsBorder(x, y) THEN INDESTRUCTIBLE_WALL
            ELSE IF Random(seed, 0, x, y) % 100 < 43 THEN WALL ELSE FLOOR
    IN  Grid(F)

Moore == {d \in (-1 .. 1) \X (-1 .. 1) : d # <<0, 0>>}

smoothMap(t) ==
    LET F(x, y) ==
            IF IsBorder(x, y) THEN t[x][y]
            ELSE LET neighbors ==
                         Cardinality({d \in Moore : IsSolid(t[x + d[1]][y + d[2]])})
                 IN  IF neighbors > 4 THEN WALL
                     ELSE IF neighbors < 4 THEN FLOOR
                     ELSE t[x][y]
    IN  Grid(F)

\* generateKowloonMap, step 2.5: 15% of the walls become indestructible.
Sprinkle(t, seed) ==
    LET F(x, y) ==
            IF ~IsBorder(x, y) /\ t[x][y] = WALL /\ Random(seed, 1, x, y) % 100 < 15
            THEN INDESTRUCTIBLE_WALL
            ELSE t[x][y]
    IN  Grid(F)

\* The four directions in the order of the `dirs` array of the widening pass.
WidenDirs == << <<1, 0>>, <<-1, 0>>, <<0, 1>>, <<0, -1>> >>

\* The number of orthogonal FLOOR neighbours of tile (x, y).
floorNeighbors(t, x, y) ==
    (IF t[x + 1][y] = FLOOR THEN 1 ELSE 0)
    + (IF t[x - 1][y] = FLOOR THEN 1 ELSE 0)
    + (IF t[x][y + 1] = FLOOR THEN 1 ELSE 0)
    + (IF t[x][y - 1] = FLOOR THEN 1 ELSE 0)

\* The neighbour the widening pass picks at tile (x, y).
WidenPick(x, y, seed) ==
    LET dir == WidenDirs[(Random(seed, 2, x, y) % 4) + 1]
    IN  <<x + dir[1], y + dir[2]>>

\* The inner loop of the widening pass: column x from row y on, in place.
RECURSIVE WidenColumn(_, _, _, _)
WidenColumn(t, x, y, seed) ==
    IF y >= height - 2 THEN t
    ELSE LET n == WidenPick(x, y, seed)
         IN  IF t[x][y] = FLOOR /\ floorNeighbors(t, x, y) < 2 /\ t[n[1]][n[2]] = WALL
             THEN WidenColumn([t EXCEPT ![n[1]][n[2]] = FLOOR], x, y + 1, seed)
             ELSE WidenColumn(t, x, y + 1, seed)

\* generateKowloonMap, step 3: the widening loops, x outer and y inner, in
\* place.
RECURSIVE Widen(_, _, _)
Widen(t, x, seed) ==
    IF x >= width - 2 THEN t
    ELSE LET column == WidenColumn(t, x, 2, seed)
         IN  \* (the comparison has TLC finish the column before the next one)
             IF column = t THEN Widen(t, x + 1, seed) ELSE Widen(column, x + 1, seed)

centerX == width \div 2
centerY == height \div 2
centerRadius == 5

\* generateKowloonMap, step "City Center".
CityCenter(t) ==
    LET F(x, y) ==
            IF /\ x >= centerX - centerRadius /\ x <= centerX + centerRadius
               /\ y >= centerY - centerRadius /\ y <= centerY + centerRadius
               /\ x > 0 /\ x < width - 1 /\ y > 0 /\ y < height - 1
            THEN CITY_HOUSE_FLOOR
            ELSE t[x][y]
    IN  Grid(F)

Orthogonal == {<<0, 1>>, <<0, -1>>, <<1, 0>>, <<-1, 0>>}

\* ensureConnectivity, the flood fill: the set `visited` when the queue is empty.
RECURSIVE Flood(_, _, _)
Flood(t, visited, frontier) ==
    LET next == {p \in {<<q[1] + d[1], q[2] + d[2]>> : q \in frontier, d \in Orthogonal} :
                    /\ p[1] > 0 /\ p[1] < width - 1 /\ p[2] > 0 /\ p[2] < height - 1
                    /\ p \notin visited
                    /\ ~IsSolid(t[p[1]][p[2]])}
    IN  IF next = {} THEN visited ELSE Flood(t, visited \cup next, next)

\* ensureConnectivity, "Fill isolated pockets".
FillPockets(t) ==
    LET visited == Flood(t, {<<centerX, centerY>>}, {<<centerX, centerY>>})
        F(x, y) ==
            IF ~IsBorder(x, y) /\ t[x][y] = FLOOR /\ <<x, y>> \notin visited
            THEN WALL
            ELSE t[x][y]
    IN  Grid(F)

SpawnTile == 5

\* ensureConnectivity, "Simple path carving to center": the tiles the two
\* while loops visit, each turned to FLOOR if it is a WALL.
CarveCorridor(t) ==
    LET endX == IF SpawnTile < centerX THEN centerX ELSE SpawnTile
        F(x, y) ==
            IF /\ t[x][y] = WALL
               /\ \/ (y = SpawnTile /\ x >= SpawnTile /\ x < centerX)
                  \/ (x = endX /\ y >= SpawnTile /\ y < centerY)
            THEN FLOOR
            ELSE t[x][y]
    IN  Grid(F)

\* ensureConnectivity, "Clear spawn area".
ClearSpawn(t) ==
    LET F(x, y) ==
            IF x >= SpawnTile - 1 /\ x <= SpawnTile + 1 /\ y >= SpawnTile - 1 /\ y <= SpawnTile + 1
            THEN FLOOR
            ELSE t[x][y]
    IN  Grid(F)

ensureConnectivity(t) == ClearSpawn(CarveCorridor(FillPockets(t)))

generateKowloonMap(seed) ==
    LET t0 == FillNoise(seed)
        t5 == smoothMap(smoothMap(smoothMap(smoothMap(smoothMap(t0)))))
    IN  ensureConnectivity(CityCenter(Widen(Sprinkle(t5, seed), 2, seed)))

InitialWallHealth ==
    LET F(x, y) == 100 * HP
    IN  Grid(F)

\* A getTile that answers FLOOR outside the map.
getTile_FloorOutside(t, x, y) ==
    IF x < 0 \/ x >= width \/ y < 0 \/ y >= height THEN FLOOR ELSE t[x][y]

\* getTile(x, y)
getTile(t, x, y) ==
    IF x < 0 \/ x >= width \/ y < 0 \/ y >= height THEN WALL ELSE t[x][y]

\* A damageWall that turns the tile to floor only when the durability has
\* gone below zero.
damageWall_BelowZero(t, wh, x, y, amount) ==
    IF x < 0 \/ x >= width \/ y < 0 \/ y >= height THEN <<t, wh>>
    ELSE IF t[x][y] # WALL THEN <<t, wh>>
    ELSE LET h == wh[x][y] - amount
         IN  <<IF h < 0 THEN [t EXCEPT ![x][y] = FLOOR] ELSE t,
               [wh EXCEPT ![x][y] = h]>>

\* A damageWall that wears down every solid tile, the indestructible ones too.
damageWall_AnySolid(t, wh, x, y, amount) ==
    IF x < 0 \/ x >= width \/ y < 0 \/ y >= height THEN <<t, wh>>
    ELSE IF ~IsSolid(t[x][y]) THEN <<t, wh>>
    ELSE LET h == wh[x][y] - amount
         IN  <<IF h <= 0 THEN [t EXCEPT ![x][y] = FLOOR] ELSE t,
               [wh EXCEPT ![x][y] = h]>>

\* A damageWall that gives an opened tile its full durability back.
damageWall_Restores(t, wh, x, y, amount) ==
    IF x < 0 \/ x >= width \/ y < 0 \/ y >= height THEN <<t, wh>>
    ELSE IF t[x][y] # WALL THEN <<t, wh>>
    ELSE LET h == wh[x][y] - amount
         IN  <<IF h <= 0 THEN [t EXCEPT ![x][y] = FLOOR] ELSE t,
               [wh EXCEPT ![x][y] = IF h <= 0 THEN 100 * HP ELSE h]>>

\* damageWall: the world <<tiles, wallHealth>> after the call.
damageWall(t, wh, x, y, amount) ==
    IF x < 0 \/ x >= width \/ y < 0 \/ y >= height THEN <<t, wh>>
    ELSE IF t[x][y] # WALL THEN <<t, wh>>
    ELSE LET h == wh[x][y] - amount
         IN  <<IF h <= 0 THEN [t EXCEPT ![x][y] = FLOOR] ELSE t,
               [wh EXCEPT ![x][y] = h]>>

(***************************************************************************)
(* Entities.ts                                                             *)
(***************************************************************************)
WeaponType == {"SMG", "Assault Rifle", "Shotgun", "Sniper Rifle", "Rocket Launcher"}

\* weapon: WeaponType | null
NoWeapon == "null"

\* The WEAPONS table: times in centiseconds, damage in units of 1/HP.
WEAPONS ==
    [w \in WeaponType |->
        CASE w = "SMG" ->
                [fireRate |-> 8, damage |-> 12 * HP, speed |-> 850, count |-> 1,
                 isRocket |-> FALSE, magSize |-> 25, reloadTime |-> 75, wallDamage |-> 0]
          [] w = "Assault Rifle" ->
                [fireRate |-> 10, damage |-> 15 * HP, speed |-> 900, count |-> 1,
                 isRocket |-> FALSE, magSize |-> 20, reloadTime |-> 100, wallDamage |-> 1]
          [] w = "Shotgun" ->
                [fireRate |-> 100, damage |-> 20 * HP, speed |-> 600, count |-> 5,
                 isRocket |-> FALSE, magSize |-> 8, reloadTime |-> 150, wallDamage |-> 2]
          [] w = "Sniper Rifle" ->
                [fireRate |-> 150, damage |-> 80 * HP, speed |-> 1500, count |-> 1,
                 isRocket |-> FALSE, magSize |-> 5, reloadTime |-> 200, wallDamage |-> 5]
          [] w = "Rocket Launcher" ->
                [fireRate |-> 200, damage |-> 100 * HP, speed |-> 500, count |-> 1,
                 isRocket |-> TRUE, magSize |-> 3, reloadTime |-> 175, wallDamage |-> 5]]

Vec(x, y) == [x |-> x, y |-> y]

\* (a.x - b.x) ** 2 + (a.y - b.y) ** 2: the square of the distance the code
\* takes the root of.
Dist2(a, b) == (a.x - b.x) * (a.x - b.x) + (a.y - b.y) * (a.y - b.y)

\* Angles are whole degrees; the model aims along the axes only.
\* Math.atan2(dy, dx), Math.cos and Math.sin on those directions.
Atan2(dy, dx) ==
    CASE dy = 0 /\ dx >= 0 -> 0
      [] dy = 0 /\ dx < 0 -> 180
      [] dx = 0 /\ dy > 0 -> 90
      [] dx = 0 /\ dy < 0 -> -90

\* Math.sqrt(dx * dx + dy * dy) for a vector along an axis.
Norm(dx, dy) ==
    CASE dy = 0 -> (IF dx < 0 THEN -dx ELSE dx)
      [] dx = 0 -> (IF dy < 0 THEN -dy ELSE dy)

Cos(a) == CASE a = 0 -> 1 [] a = 180 -> -1 [] a = 90 -> 0 [] a = -90 -> 0
Sin(a) == CASE a = 0 -> 0 [] a = 180 -> 0 [] a = 90 -> 1 [] a = -90 -> -1

\* new Loot(x, y, weapon)
NewLoot(x, y, weapon) == [position |-> Vec(x, y), weapon |-> weapon, active |-> TRUE]

\* new Bullet(x, y, angle, stats, owner); owner is the owning combatant's id.
NewBullet(x, y, angle, stats, owner) ==
    [position |-> Vec(x, y),
     velocity |-> Vec(Cos(angle) * stats.speed, Sin(angle) * stats.speed),
     radius |-> IF stats.isRocket THEN 6 ELSE 3,
     active |-> TRUE,
     lifeTime |-> 200,
     damage |-> stats.damage,
     isRocket |-> stats.isRocket,
     owner |-> owner]

\* Bullet.update(dt)
BulletUpdate(b, dt) ==
    LET lifeTime == b.lifeTime - dt
    IN  [b EXCEPT !.position = Vec(b.position.x + (b.velocity.x * dt) \div 100,
                                   b.position.y + (b.velocity.y * dt) \div 100),
                  !.lifeTime = lifeTime,
                  !.active = IF lifeTime <= 0 THEN FALSE ELSE b.active]

\* new Explosion(x, y, owner)
NewExplosion(x, y, owner) ==
    [position |-> Vec(x, y), timeElapsed |-> 0, active |-> TRUE, owner |-> owner,
     ticks |-> 0]      \* history: the number of its update calls

ExplosionMaxRadius == 50
ExplosionDuration == 50

\* Explosion.update(dt); the drawn radius is not modelled.
ExplosionUpdate(exp, dt) ==
    LET timeElapsed == exp.timeElapsed + dt
    IN  [exp EXCEPT !.timeElapsed = timeElapsed,
                    !.active = IF timeElapsed >= ExplosionDuration THEN FALSE ELSE exp.active]

\* No owner: owner = null.
NoOwner == -1

PlayerRadius == 20
maxHealth == 100 * HP
maxShield == 50 * HP
dashCooldown == 300
dashDuration == 20

\* new Player(x, y, isNPC); id tells the combatant objects apart.
NewPlayer(id, x, y, isNPC) ==
    [id |-> id,
     position |-> Vec(x, y), velocity |-> Vec(0, 0), rotation |-> 0,
     health |-> 100 * HP, isDead |-> FALSE, siphoned |-> FALSE,
     weapon |-> NoWeapon, dropRequested |-> FALSE,
     lastShotTime |-> 0, currentAmmo |-> 0, isReloading |-> FALSE, reloadTimer |-> 0,
     maxAmmo |-> 0,
     shield |-> 0, lastDamageTime |-> 0,
     lastDashTime |-> -1000, isDashing |-> FALSE, dashTimer |-> 0,
     isNPC |-> isNPC, aiState |-> "IDLE", path |-> <<>>, pathTimer |-> 0,
     weaponPickupTime |-> 0, hasHalo |-> FALSE,
     deaths |-> 0]     \* history: how often the death branch of damageEntity ran

\* Player.reload()
reload(p) ==
    IF p.isReloading \/ p.weapon = NoWeapon \/ p.currentAmmo = p.maxAmmo THEN p
    ELSE [p EXCEPT !.isReloading = TRUE, !.reloadTimer = WEAPONS[p.weapon].reloadTime]

\* A shoot() that fires while the combatant reloads.
shoot_WhileReloading(p, now) ==
    IF p.weapon = NoWeapon THEN <<p, <<>>>>
    ELSE IF now - p.lastShotTime >= WEAPONS[p.weapon].fireRate
    THEN IF p.currentAmmo <= 0 THEN <<reload(p), <<>>>>
         ELSE <<[p EXCEPT !.lastShotTime = now, !.currentAmmo = p.currentAmmo - 1],
                [i \in 1 .. WEAPONS[p.weapon].count |->
                    NewBullet(p.position.x + Cos(p.rotation) * 30,
                              p.position.y + Sin(p.rotation) * 30,
                              p.rotation, WEAPONS[p.weapon], p.id)]>>
    ELSE <<p, <<>>>>

\* Player.shoot() at clock `now`, every pellet's spread drawn as 0:
\* <<the combatant after the call, the bullets returned (<<>> for null)>>.
shoot(p, now) ==
    IF p.isReloading \/ p.weapon = NoWeapon THEN <<p, <<>>>>
    ELSE IF now - p.lastShotTime >= WEAPONS[p.weapon].fireRate
    THEN IF p.currentAmmo <= 0 THEN <<reload(p), <<>>>>
         ELSE LET stats == WEAPONS[p.weapon]
                  gunOffset == 30
                  spawnX == p.position.x + Cos(p.rotation) * gunOffset
                  spawnY == p.position.y + Sin(p.rotation) * gunOffset
              IN  <<[p EXCEPT !.lastShotTime = now, !.currentAmmo = p.currentAmmo - 1],
                    [i \in 1 .. stats.count |->
                        NewBullet(spawnX, spawnY, p.rotation, stats, p.id)]>>
    ELSE <<p, <<>>>>

\* A dash() that does not wait for the cooldown.
dash_NoCooldown(p, now) ==
    IF ~p.isDashing
    THEN <<[p EXCEPT !.isDashing = TRUE, !.dashTimer = dashDuration, !.lastDashTime = now,
                     !.velocity = Vec(Cos(p.rotation) * 1000, Sin(p.rotation) * 1000)],
           TRUE>>
    ELSE <<p, FALSE>>

\* Player.dash() at clock `now`: <<the combatant after the call, the result>>.
dash(p, now) ==
    IF now - p.lastDashTime >= dashCooldown /\ ~p.isDashing
    THEN LET dx == IF p.velocity.x # 0 \/ p.velocity.y # 0 THEN p.velocity.x ELSE Cos(p.rotation)
             dy == IF p.velocity.x # 0 \/ p.velocity.y # 0 THEN p.velocity.y ELSE Sin(p.rotation)
             len == Norm(dx, dy)
             dashSpeed == 1000
         IN  <<[p EXCEPT !.isDashing = TRUE, !.dashTimer = dashDuration, !.lastDashTime = now,
                         !.velocity = Vec((dx * dashSpeed) \div len, (dy * dashSpeed) \div len)],
               TRUE>>
    ELSE <<p, FALSE>>

(***************************************************************************)
(* World.findPath and the combatants' steering                             *)
(***************************************************************************)
\* Math.floor(a / b) for b > 0.
Floor(a, b) == a \div b

TileOf(pos) == <<Floor(pos.x, TILE_SIZE), Floor(pos.y, TILE_SIZE)>>
TileCenter(tile) == Vec(tile[1] * TILE_SIZE + TILE_SIZE \div 2, tile[2] * TILE_SIZE + TILE_SIZE \div 2)

\* The `neighbors` array of findPath, in its order.
PathDirs == << <<1, 0>>, <<-1, 0>>, <<0, 1>>, <<0, -1>> >>

\* A findPath that enqueues solid tiles too.
RECURSIVE Enqueued_ThroughWalls(_, _, _, _)
Enqueued_ThroughWalls(t, cameFrom, current, k) ==
    IF k > Len(PathDirs) THEN <<>>
    ELSE LET next == <<current[1] + PathDirs[k][1], current[2] + PathDirs[k][2]>>
             rest == Enqueued_ThroughWalls(t, cameFrom, current, k + 1)
         IN  IF /\ next[1] >= 0 /\ next[1] < width /\ next[2] >= 0 /\ next[2] < height
                /\ next \notin DOMAIN cameFrom
             THEN <<next>> \o rest
             ELSE rest

\* The neighbours of `current` that findPath enqueues: inside the map, not
\* solid and without a cameFrom entry, in the order of `neighbors`.
RECURSIVE Enqueued(_, _, _, _)
Enqueued(t, cameFrom, current, k) ==
    IF k > Len(PathDirs) THEN <<>>
    ELSE LET next == <<current[1] + PathDirs[k][1], current[2] + PathDirs[k][2]>>
             rest == Enqueued(t, cameFrom, current, k + 1)
         IN  IF /\ next[1] >= 0 /\ next[1] < width /\ next[2] >= 0 /\ next[2] < height
                /\ ~IsSolid(t[next[1]][next[2]])
                /\ next \notin DOMAIN cameFrom
             THEN <<next>> \o rest
             ELSE rest

\* The while loop of findPath over the part `layer` of the queue, from its
\* i-th tile on: <<cameFrom, the tiles pushed behind the layer>>.
RECURSIVE Expand(_, _, _, _, _)
Expand(t, layer, i, cameFrom, pushed) ==
    IF i > Len(layer) THEN <<cameFrom, pushed>>
    ELSE LET new == Enqueued(t, cameFrom, layer[i], 1)
             from == [n \in {new[k] : k \in 1 .. Len(new)} |-> layer[i]] @@ cameFrom
         IN  IF Len(new) = 0 THEN Expand(t, layer, i + 1, cameFrom, pushed)
             ELSE Expand(t, layer, i + 1, from, pushed \o new)

\* "Reconstruct path": the tile centres from the start tile (the tile whose
\* cameFrom entry is null) to `tile`.
RECURSIVE Reconstruct(_, _, _)
Reconstruct(cameFrom, tile, path) ==
    IF cameFrom[tile] = <<>> THEN <<TileCenter(tile)>> \o path
    ELSE Reconstruct(cameFrom, cameFrom[tile], <<TileCenter(tile)>> \o path)

\* The queue of findPath, layer by layer, until the end tile has its cameFrom
\* entry (the entry it still has when it is dequeued) or the queue is empty.
RECURSIVE Search(_, _, _, _)
Search(t, layer, cameFrom, endTile) ==
    IF endTile \in DOMAIN cameFrom
    THEN [found |-> TRUE, path |-> Reconstruct(cameFrom, endTile, <<>>)]
    ELSE IF Len(layer) = 0 THEN [found |-> FALSE, path |-> <<>>]
    ELSE LET step == Expand(t, layer, 1, cameFrom, <<>>)
         IN  Search(t, step[2], step[1], endTile)

\* findPath(start, end): found = FALSE is the result null.
findPath(t, start, end) ==
    LET startTile == TileOf(start)
        endTile == TileOf(end)
    IN  IF startTile = endTile THEN [found |-> TRUE, path |-> <<>>]
        ELSE Search(t, <<startTile>>, (startTile :> <<>>), endTile)

(***************************************************************************)
(* World.checkCollision                                                    *)
(***************************************************************************)
Min(a, b) == IF a < b THEN a ELSE b
Max(a, b) == IF a > b THEN a ELSE b

\* checkCollision, "Circle vs AABB": the point of tile (x, y) closest to pos.
Closest(pos, x, y) ==
    Vec(Max(x * TILE_SIZE, Min(pos.x, x * TILE_SIZE + TILE_SIZE)),
        Max(y * TILE_SIZE, Min(pos.y, y * TILE_SIZE + TILE_SIZE)))

\* checkCollision: the tiles of the 3x3 neighbours of pos that set `collided`,
\* the solid tiles at a distance below the radius.
Contacts(t, pos, radius) ==
    {n \in ((Floor(pos.x, TILE_SIZE) - 1) .. (Floor(pos.x, TILE_SIZE) + 1))
            \X ((Floor(pos.y, TILE_SIZE) - 1) .. (Floor(pos.y, TILE_SIZE) + 1)) :
        /\ IsSolid(getTile(t, n[1], n[2]))
        /\ Dist2(pos, Closest(pos, n[1], n[2])) < radius * radius}

\* Math.sqrt in whole pixels, rounded down; exact where the contact is along
\* an axis.  46340 is the largest root of a 32-bit integer.
RECURSIVE SqrtBetween(_, _, _)
SqrtBetween(n, lo, hi) ==
    IF lo = hi THEN lo
    ELSE LET mid == (lo + hi + 1) \div 2
         IN  IF mid * mid <= n THEN SqrtBetween(n, mid, hi) ELSE SqrtBetween(n, lo, mid - 1)
ISqrt(n) == SqrtBetween(n, 0, Min(n, 46340))

\* checkCollision: what the solid tile n in contact adds to push and normal.
\* The normal is kept in thousandths.
Contact(pos, radius, n) ==
    LET dx == pos.x - Closest(pos, n[1], n[2]).x
        dy == pos.y - Closest(pos, n[1], n[2]).y
        distance == ISqrt(dx * dx + dy * dy)
        overlap == radius - distance
    IN  IF distance > 0
        THEN [pushX |-> (dx * overlap) \div distance, pushY |-> (dy * overlap) \div distance,
              normalX |-> (dx * 1000) \div distance, normalY |-> (dy * 1000) \div distance]
        ELSE [pushX |-> overlap, pushY |-> 0, normalX |-> 0, normalY |-> 0]

\* The sums of checkCollision over the tiles S in contact.
RECURSIVE SumContacts(_, _, _)
SumContacts(pos, radius, S) ==
    IF S = {} THEN [pushX |-> 0, pushY |-> 0, normalX |-> 0, normalY |-> 0]
    ELSE LET n == CHOOSE m \in S : TRUE
             c == Contact(pos, radius, n)
             rest == SumContacts(pos, radius, S \ {n})
         IN  [pushX |-> c.pushX + rest.pushX, pushY |-> c.pushY + rest.pushY,
              normalX |-> c.normalX + rest.normalX, normalY |-> c.normalY + rest.normalY]

\* checkCollision, "Normalize normal vector", in thousandths.
Normalized(sum) ==
    LET len == ISqrt(sum.normalX * sum.normalX + sum.normalY * sum.normalY)
    IN  IF len > 0 THEN Vec((sum.normalX * 1000) \div len, (sum.normalY * 1000) \div len)
        ELSE Vec(sum.normalX, sum.normalY)

\* checkCollision(pos, radius): collided = FALSE is the result null.
checkCollision(t, pos, radius) ==
    [collided |-> Contacts(t, pos, radius) # {},
     push |-> Vec(SumContacts(pos, radius, Contacts(t, pos, radius)).pushX,
                  SumContacts(pos, radius, Contacts(t, pos, radius)).pushY),
     normal |-> Normalized(SumContacts(pos, radius, Contacts(t, pos, radius)))]

(***************************************************************************)
(* Engine (src/unnamed/part_001)                                           *)
(***************************************************************************)
\* gameEndTime = null
NoTime == -1

\* The callbacks' calls are kept up to this many per match.
MaxCalls == 3

\* this.particles.push(new Particle(x, y, color)) n times: the n particles of
\* a burst share their place and colour, and the model draws the same maxLife
\* for them.
ParticleLife == 30
Burst(x, y, color, n) == [position |-> Vec(x, y), color |-> color, count |-> n, life |-> ParticleLife]

\* spawnBlood(x, y)
spawnBlood(E, x, y) == [E EXCEPT !.particles = Append(E.particles, Burst(x, y, "#FF0000", 40))]

\* spawnDashParticles(player)
spawnDashParticles(E, p) ==
    [E EXCEPT !.particles = Append(E.particles, Burst(p.position.x, p.position.y, "#FFFFFF", 10))]

\* The history of a step, for the properties to read: what happened (type),
\* to which combatant id (who), through whose bullet, explosion or item (by),
\* with a number n and a flag.
Event(type, who, by, n, flag) == [type |-> type, who |-> who, by |-> by, n |-> n, flag |-> flag]
Log(E, event) == [E EXCEPT !.events = Append(E.events, event)]

\* The combatant `who` of engine state E: 0 is this.player, i > 0 is this.npcs[i - 1].
Entity(E, who) == IF who = 0 THEN E.player ELSE E.npcs[who]
WithEntity(E, who, c) ==
    IF who = 0 THEN [E EXCEPT !.player = c] ELSE [E EXCEPT !.npcs[who] = c]

\* onWinner(winner)
onWinner(E, winner) ==
    IF Len(E.winners) < MaxCalls THEN [E EXCEPT !.winners = Append(E.winners, winner)] ELSE E

\* onKill()
onKill(E) == [E EXCEPT !.kills = IF E.kills < MaxCalls THEN E.kills + 1 ELSE E.kills]

\* A siphon that drops the overflow instead of routing it to the shield.
siphon_NoOverflow(p) ==
    LET healed == p.health + 30 * HP
    IN  [p EXCEPT !.health = IF healed > maxHealth THEN maxHealth ELSE healed]

\* damageEntity, "Siphon": the controlled combatant after the heal.
siphon(p) ==
    LET healAmount == 30 * HP
        missingHealth == maxHealth - p.health
    IN  IF healAmount > missingHealth
        THEN LET overflow == healAmount - missingHealth
                 shield == p.shield + overflow
             IN  [p EXCEPT !.health = maxHealth,
                           !.shield = IF 50 * HP < shield THEN 50 * HP ELSE shield]
        ELSE [p EXCEPT !.health = p.health + healAmount]

\* A damage resolution without `if (entity.isDead) return`: the death branch
\* runs whenever the health is not positive.
applyHealthDamage_NoDeadCheck(E, who, amount, dealer, now) ==
    LET entity == Entity(E, who)
        hurt == [entity EXCEPT !.health = entity.health - amount]
        E1 == WithEntity(E, who, hurt)
    IN  IF hurt.health > 0 THEN E1
        ELSE LET dead == [hurt EXCEPT !.isDead = TRUE, !.deaths = hurt.deaths + 1]
                 E2 == spawnBlood(Log(WithEntity(E1, who, dead),
                                      Event("death", dead.id, dealer, dead.deaths, FALSE)),
                                  dead.position.x, dead.position.y)
             IN  IF dead.isNPC /\ ~E2.player.isDead /\ dealer = E2.player.id
                 THEN LET E3 == onKill(WithEntity(E2, who, [dead EXCEPT !.siphoned = TRUE]))
                      IN  [E3 EXCEPT !.player = siphon(E3.player)]
                 ELSE IF ~dead.isNPC
                 THEN onWinner(E2, "GAME OVER")
                 ELSE E2

\* A damage resolution that grants the siphon whoever dealt the damage.
applyHealthDamage_AnyDealer(E, who, amount, dealer, now) ==
    LET entity == Entity(E, who)
        hurt == [entity EXCEPT !.health = entity.health - amount]
        E1 == WithEntity(E, who, hurt)
    IN  IF hurt.health > 0 THEN E1
        ELSE IF hurt.isDead THEN E1
        ELSE LET dead == [hurt EXCEPT !.isDead = TRUE, !.deaths = hurt.deaths + 1]
                 E2 == spawnBlood(Log(WithEntity(E1, who, dead),
                                      Event("death", dead.id, dealer, dead.deaths, FALSE)),
                                  dead.position.x, dead.position.y)
             IN  IF dead.isNPC /\ ~E2.player.isDead /\ ~dead.siphoned
                 THEN LET E3 == onKill(Log(WithEntity(E2, who, [dead EXCEPT !.siphoned = TRUE]),
                                           Event("kill", dead.id, dealer, E2.player.health,
                                                 E2.player.isDead)))
                      IN  [E3 EXCEPT !.player = siphon(E3.player)]
                 ELSE IF ~dead.isNPC
                 THEN onWinner(E2, "GAME OVER")
                 ELSE E2

\* damageEntity, from `entity.health -= amount` on: E holds the entity after
\* the shield step.
applyHealthDamage(E, who, amount, dealer, now) ==
    LET entity == Entity(E, who)
        hurt == [entity EXCEPT !.health = entity.health - amount]
        E1 == WithEntity(E, who, hurt)
    IN  IF hurt.health > 0 THEN E1
        ELSE IF hurt.isDead THEN E1
        ELSE LET dead == [hurt EXCEPT !.isDead = TRUE, !.deaths = hurt.deaths + 1]
                 E2 == spawnBlood(Log(WithEntity(E1, who, dead),
                                      Event("death", dead.id, dealer, dead.deaths, FALSE)),
                                  dead.position.x, dead.position.y)
             IN  IF dead.isNPC /\ ~E2.player.isDead /\ ~dead.siphoned /\ dealer = E2.player.id
                 THEN LET E3 == onKill(Log(WithEntity(E2, who, [dead EXCEPT !.siphoned = TRUE]),
                                           Event("kill", dead.id, dealer, E2.player.health,
                                                 E2.player.isDead)))
                      IN  [E3 EXCEPT !.player = siphon(E3.player)]
                 ELSE IF ~dead.isNPC
                 THEN LET E3 == IF E2.gameEndTime = NoTime
                                THEN [E2 EXCEPT !.gameEndTime = now] ELSE E2
                      IN  onWinner(E3, "GAME OVER")
                 ELSE E2

\* A damage resolution whose shield takes a hit whole: what exceeds the
\* shield is lost instead of reaching the health.
damageEntity_ShieldTakesAll(E, who, amount, dealer, now) ==
    LET entity == [Entity(E, who) EXCEPT !.lastDamageTime = now]
    IN  IF entity.shield > 0
        THEN WithEntity(E, who, [entity EXCEPT !.shield = IF entity.shield >= amount
                                                          THEN entity.shield - amount ELSE 0])
        ELSE applyHealthDamage(WithEntity(E, who, entity), who, amount, dealer, now)

\* damageEntity(entity, amount, dealer) at clock `now`.
damageEntity(E, who, amount, dealer, now) ==
    LET entity == [Entity(E, who) EXCEPT !.lastDamageTime = now]
    IN  IF entity.shield > 0 /\ entity.shield >= amount
        THEN WithEntity(E, who, [entity EXCEPT !.shield = entity.shield - amount])
        ELSE IF entity.shield > 0
        THEN applyHealthDamage(WithEntity(E, who, [entity EXCEPT !.shield = 0]),
                               who, amount - entity.shield, dealer, now)
        ELSE applyHealthDamage(WithEntity(E, who, entity), who, amount, dealer, now)

\* consumePotion(entity, potion): potion k of this.potions.
consumePotion(E, who, k) ==
    LET entity == Entity(E, who)
        healAmount == 50 * HP
        missingHealth == maxHealth - entity.health
        healed ==
            IF healAmount > missingHealth
            THEN LET shield == entity.shield + (healAmount - missingHealth)
                 IN  [entity EXCEPT !.health = maxHealth,
                                    !.shield = IF maxShield < shield THEN maxShield ELSE shield]
            ELSE [entity EXCEPT !.health = entity.health + healAmount]
    IN  [WithEntity(E, who, healed) EXCEPT !.potions[k].active = FALSE]

\* Player.moveTo, "Follow Path" and the direct line: the combatant n1 after
\* the re-plan steers to the first point of its path, or to the target.
steerTo(n1, point) ==
    [n1 EXCEPT !.rotation = Atan2(point.y - n1.position.y, point.x - n1.position.x),
               !.velocity = Vec(Cos(Atan2(point.y - n1.position.y, point.x - n1.position.x)) * 300,
                                Sin(Atan2(point.y - n1.position.y, point.x - n1.position.x)) * 300)]

followPath(n1, target) ==
    IF Len(n1.path) > 0
    THEN IF Dist2(n1.path[1], n1.position) < 10 * 10
         THEN [n1 EXCEPT !.path = Tail(n1.path)]
         ELSE steerTo(n1, n1.path[1])
    ELSE steerTo(n1, target)

\* Player.moveTo, "Path Re-calculation" with the result `found` of findPath.
replanned(npc, found) ==
    [npc EXCEPT !.pathTimer = 100, !.path = IF found.found THEN found.path ELSE npc.path]

\* Player.moveTo(dt, target, world); rnd is the outcome of `Math.random() < 0.1`.
moveTo(npc, dt, target, t, rnd) ==
    followPath(IF npc.pathTimer - dt <= 0 \/ (Len(npc.path) = 0 /\ rnd)
               THEN replanned(npc, findPath(t, npc.position, target))
               ELSE [npc EXCEPT !.pathTimer = npc.pathTimer - dt],
               target)

\* The outcomes of `Math.random() < 0.1` that moveTo can read.
RandomReplan(npc, dt) ==
    IF npc.pathTimer - dt > 0 /\ Len(npc.path) = 0 THEN BOOLEAN ELSE {FALSE}

\* The first index of S at the least squared distance d2[i]: the result of
\* the `if (dist < minDist)` loops.
Nearest(S, d2) ==
    CHOOSE i \in S : \A j \in S : d2[i] < d2[j] \/ (d2[i] = d2[j] /\ i <= j)

\* A decision step that a dead combatant takes as well.
updateAI_Dead(E, who, dt, now, rnd) ==
    LET npc == E.npcs[who]
        state == IF npc.weapon = NoWeapon THEN "SEARCHING" ELSE "FIGHTING"
        n0 == [npc EXCEPT !.aiState = state]
        lootOn == {k \in 1 .. Len(E.loot) : E.loot[k].active}
        lootD2 == [k \in lootOn |-> Dist2(E.loot[k].position, npc.position)]
        others == {w \in 0 .. Len(E.npcs) : w # who /\ ~Entity(E, w).isDead}
        otherD2 == [w \in others |-> Dist2(Entity(E, w).position, npc.position)]
        potionOn == IF npc.health < 100 * HP
                    THEN {k \in 1 .. Len(E.potions) : E.potions[k].active} ELSE {}
        potionD2 == [k \in potionOn |-> Dist2(E.potions[k].position, npc.position)]
    IN  IF ~npc.isNPC THEN <<npc, <<>>>>
        ELSE IF state = "SEARCHING"
        THEN IF lootOn = {} THEN <<n0, <<>>>>
             ELSE <<moveTo(n0, dt, E.loot[Nearest(lootOn, lootD2)].position, E.tiles, rnd), <<>>>>
        ELSE IF /\ potionOn # {}
                /\ \/ others = {}
                   \/ potionD2[Nearest(potionOn, potionD2)] < otherD2[Nearest(others, otherD2)]
        THEN <<moveTo(n0, dt, E.potions[Nearest(potionOn, potionD2)].position, E.tiles, rnd), <<>>>>
        ELSE IF others # {}
        THEN LET nearestTarget == Entity(E, Nearest(others, otherD2))
                 n1 == [n0 EXCEPT !.rotation =
                            Atan2(nearestTarget.position.y - n0.position.y,
                                  nearestTarget.position.x - n0.position.x)]
             IN  IF otherD2[Nearest(others, otherD2)] < 400 * 400
                 THEN IF now - n1.weaponPickupTime >= 300 THEN shoot(n1, now) ELSE <<n1, <<>>>>
                 ELSE <<moveTo(n1, dt, nearestTarget.position, E.tiles, rnd), <<>>>>
        ELSE <<n0, <<>>>>

\* A decision step that fires without the grace period after a pickup.
updateAI_NoGrace(E, who, dt, now, rnd) ==
    LET npc == E.npcs[who]
        state == IF npc.weapon = NoWeapon THEN "SEARCHING" ELSE "FIGHTING"
        n0 == [npc EXCEPT !.aiState = state]
        lootOn == {k \in 1 .. Len(E.loot) : E.loot[k].active}
        lootD2 == [k \in lootOn |-> Dist2(E.loot[k].position, npc.position)]
        others == {w \in 0 .. Len(E.npcs) : w # who /\ ~Entity(E, w).isDead}
        otherD2 == [w \in others |-> Dist2(Entity(E, w).position, npc.position)]
        potionOn == IF npc.health < 100 * HP
                    THEN {k \in 1 .. Len(E.potions) : E.potions[k].active} ELSE {}
        potionD2 == [k \in potionOn |-> Dist2(E.potions[k].position, npc.position)]
    IN  IF ~npc.isNPC \/ npc.isDead THEN <<npc, <<>>>>
        ELSE IF state = "SEARCHING"
        THEN IF lootOn = {} THEN <<n0, <<>>>>
             ELSE <<moveTo(n0, dt, E.loot[Nearest(lootOn, lootD2)].position, E.tiles, rnd), <<>>>>
        ELSE IF /\ potionOn # {}
                /\ \/ others = {}
                   \/ potionD2[Nearest(potionOn, potionD2)] < otherD2[Nearest(others, otherD2)]
        THEN <<moveTo(n0, dt, E.potions[Nearest(potionOn, potionD2)].position, E.tiles, rnd), <<>>>>
        ELSE IF others # {}
        THEN LET nearestTarget == Entity(E, Nearest(others, otherD2))
                 n1 == [n0 EXCEPT !.rotation =
                            Atan2(nearestTarget.position.y - n0.position.y,
                                  nearestTarget.position.x - n0.position.x)]
             IN  IF otherD2[Nearest(others, otherD2)] < 400 * 400
                 THEN shoot(n1, now)
                 ELSE <<moveTo(n1, dt, nearestTarget.position, E.tiles, rnd), <<>>>>
        ELSE <<n0, <<>>>>

\* A decision step after whose shot the combatant holds no weapon.
updateAI_Disarms(E, who, dt, now, rnd) ==
    LET npc == E.npcs[who]
        state == IF npc.weapon = NoWeapon THEN "SEARCHING" ELSE "FIGHTING"
        n0 == [npc EXCEPT !.aiState = state]
        lootOn == {k \in 1 .. Len(E.loot) : E.loot[k].active}
        lootD2 == [k \in lootOn |-> Dist2(E.loot[k].position, npc.position)]
        others == {w \in 0 .. Len(E.npcs) : w # who /\ ~Entity(E, w).isDead}
        otherD2 == [w \in others |-> Dist2(Entity(E, w).position, npc.position)]
        potionOn == IF npc.health < 100 * HP
                    THEN {k \in 1 .. Len(E.potions) : E.potions[k].active} ELSE {}
        potionD2 == [k \in potionOn |-> Dist2(E.potions[k].position, npc.position)]
    IN  IF ~npc.isNPC \/ npc.isDead THEN <<npc, <<>>>>
        ELSE IF state = "SEARCHING"
        THEN IF lootOn = {} THEN <<n0, <<>>>>
             ELSE <<moveTo(n0, dt, E.loot[Nearest(lootOn, lootD2)].position, E.tiles, rnd), <<>>>>
        ELSE IF /\ potionOn # {}
                /\ \/ others = {}
                   \/ potionD2[Nearest(potionOn, potionD2)] < otherD2[Nearest(others, otherD2)]
        THEN <<moveTo(n0, dt, E.potions[Nearest(potionOn, potionD2)].position, E.tiles, rnd), <<>>>>
        ELSE IF others # {}
        THEN LET nearestTarget == Entity(E, Nearest(others, otherD2))
                 n1 == [n0 EXCEPT !.rotation =
                            Atan2(nearestTarget.position.y - n0.position.y,
                                  nearestTarget.position.x - n0.position.x)]
             IN  IF otherD2[Nearest(others, otherD2)] < 400 * 400
                 THEN IF now - n1.weaponPickupTime >= 300
                      THEN <<[shoot(n1, now)[1] EXCEPT !.weapon = NoWeapon], shoot(n1, now)[2]>>
                      ELSE <<n1, <<>>>>
                 ELSE <<moveTo(n1, dt, nearestTarget.position, E.tiles, rnd), <<>>>>
        ELSE <<n0, <<>>>>

\* Player.updateAI for this.npcs[who - 1] at clock `now`:
\* <<the combatant after the call, the bullets returned>>.
updateAI(E, who, dt, now, rnd) ==
    LET npc == E.npcs[who]
        state == IF npc.weapon = NoWeapon THEN "SEARCHING" ELSE "FIGHTING"
        n0 == [npc EXCEPT !.aiState = state]
        lootOn == {k \in 1 .. Len(E.loot) : E.loot[k].active}
        lootD2 == [k \in lootOn |-> Dist2(E.loot[k].position, npc.position)]
        others == {w \in 0 .. Len(E.npcs) : w # who /\ ~Entity(E, w).isDead}
        otherD2 == [w \in others |-> Dist2(Entity(E, w).position, npc.position)]
        potionOn == IF npc.health < 100 * HP
                    THEN {k \in 1 .. Len(E.potions) : E.potions[k].active} ELSE {}
        potionD2 == [k \in potionOn |-> Dist2(E.potions[k].position, npc.position)]
    IN  IF ~npc.isNPC \/ npc.isDead THEN <<npc, <<>>>>
        ELSE IF state = "SEARCHING"
        THEN IF lootOn = {} THEN <<n0, <<>>>>
             ELSE <<moveTo(n0, dt, E.loot[Nearest(lootOn, lootD2)].position, E.tiles, rnd), <<>>>>
        ELSE IF /\ potionOn # {}
                /\ \/ others = {}
                   \/ potionD2[Nearest(potionOn, potionD2)] < otherD2[Nearest(others, otherD2)]
        THEN <<moveTo(n0, dt, E.potions[Nearest(potionOn, potionD2)].position, E.tiles, rnd), <<>>>>
        ELSE IF others # {}
        THEN LET nearestTarget == Entity(E, Nearest(others, otherD2))
                 n1 == [n0 EXCEPT !.rotation =
                            Atan2(nearestTarget.position.y - n0.position.y,
                                  nearestTarget.position.x - n0.position.x)]
             IN  IF otherD2[Nearest(others, otherD2)] < 400 * 400
                 THEN IF now - n1.weaponPickupTime >= 300 THEN shoot(n1, now) ELSE <<n1, <<>>>>
                 ELSE <<moveTo(n1, dt, nearestTarget.position, E.tiles, rnd), <<>>>>
        ELSE <<n0, <<>>>>

\* An update whose movement input also steers a dashing combatant.
steer_WhileDashing(p, dt, input) ==
    LET dashTimer == p.dashTimer - dt
        x == IF "KeyD" \in input.keys THEN 1 ELSE IF "KeyA" \in input.keys THEN -1 ELSE 0
    IN  IF p.isDashing /\ dashTimer <= 0
        THEN [p EXCEPT !.dashTimer = dashTimer, !.isDashing = FALSE, !.velocity = Vec(0, 0)]
        ELSE IF p.isDashing
        THEN [p EXCEPT !.dashTimer = dashTimer, !.velocity = Vec(x * 400, 0)]
        ELSE [p EXCEPT !.velocity = Vec(x * 400, 0), !.rotation = input.aim]

\* Player.update(dt, world, input, camera) up to "Apply Velocity": the reload
\* and dash timers, and for the controlled combatant the keys and the aim.
\* An input frame holds the pressed keys (of KeyA, KeyD, KeyR, KeyQ, Space),
\* mouseDown, the direction `aim` of the mouse from the combatant, and the
\* directions `touch` of the touch target (none without one).
steer(p, dt, input) ==
    LET timer == p.reloadTimer - dt
        p1 == IF ~p.isReloading THEN p
              ELSE IF timer <= 0
              THEN [p EXCEPT !.reloadTimer = timer, !.isReloading = FALSE,
                             !.currentAmmo = p.maxAmmo]
              ELSE [p EXCEPT !.reloadTimer = timer]
        dashTimer == p1.dashTimer - dt
        x == IF "KeyD" \in input.keys THEN 1 ELSE IF "KeyA" \in input.keys THEN -1 ELSE 0
        speed == IF p1.weapon # NoWeapon THEN 300 ELSE 400
    IN  IF p1.isDashing
        THEN IF dashTimer <= 0
             THEN [p1 EXCEPT !.dashTimer = dashTimer, !.isDashing = FALSE, !.velocity = Vec(0, 0)]
             ELSE [p1 EXCEPT !.dashTimer = dashTimer]
        ELSE IF ~p1.isNPC
        THEN [p1 EXCEPT !.velocity = Vec(x * speed, 0), !.rotation = input.aim]
        ELSE p1

\* The places the model lets a combatant stand: the centres of the tiles
\* PointTiles of the spawn row.
PointTiles == {5, 7, 10, 15}
Points == {TileCenter(<<x, SpawnTile>>) : x \in PointTiles}

\* Player.update, "Apply Velocity" to the end: the positions the combatant
\* can have afterwards.  The model keeps combatants on Points: one that moves
\* along the row gets no further than its place, or to the nearest place of
\* Points ahead of it, on a tile that is not solid, where checkCollision
\* reports no contact.
move(p, dt, t) ==
    IF dt = 0 \/ (p.velocity.x = 0 /\ p.velocity.y = 0) THEN {p}
    ELSE LET Ahead(q) == q.y = p.position.y /\ (q.x - p.position.x) * p.velocity.x > 0
         IN  {[p EXCEPT !.position = q] :
                q \in {p.position} \cup
                      {q \in Points :
                         /\ Ahead(q)
                         /\ ~IsSolid(getTile(t, TileOf(q)[1], TileOf(q)[2]))
                         /\ \A r \in Points :
                                Ahead(r) => Dist2(p.position, q) <= Dist2(p.position, r)}}

\* Player.update(dt, world, input, camera)
update(p, dt, t, input) == IF p.isDead THEN {p} ELSE move(steer(p, dt, input), dt, t)

\* `if (this.player.dash()) this.spawnDashParticles(this.player)`, where
\* dashed is the outcome of dash(); logged as a "dash" event with the time
\* of the dash before and the result.
dashCall(E, dashed) ==
    IF dashed[2]
    THEN spawnDashParticles(Log([E EXCEPT !.player = dashed[1]],
                                Event("dash", 0, 0, E.player.lastDashTime, TRUE)),
                            dashed[1])
    ELSE Log(E, Event("dash", 0, 0, E.player.lastDashTime, FALSE))

\* update, "Player Input": reload, dash and drop.
playerInput(E, input, now) ==
    LET E1 == IF "KeyR" \in input.keys THEN [E EXCEPT !.player = reload(E.player)] ELSE E
        dashed == dash(E1.player, now)
        E2 == IF "Space" \in input.keys
              THEN dashCall(E1, dashed)
              ELSE E1
        p == E2.player
        throwDist == 50
        dropX == p.position.x + Cos(p.rotation) * throwDist
        dropY == p.position.y + Sin(p.rotation) * throwDist
        maxX == width * TILE_SIZE - TILE_SIZE
        maxY == height * TILE_SIZE - TILE_SIZE
        safeX == IF dropX < TILE_SIZE THEN TILE_SIZE ELSE IF dropX > maxX THEN maxX ELSE dropX
        safeY == IF dropY < TILE_SIZE THEN TILE_SIZE ELSE IF dropY > maxY THEN maxY ELSE dropY
    IN  IF "KeyQ" \in input.keys /\ ~p.dropRequested
        THEN IF p.weapon # NoWeapon
             THEN [E2 EXCEPT !.player = [p EXCEPT !.dropRequested = TRUE, !.weapon = NoWeapon],
                             !.loot = Append(E2.loot, NewLoot(safeX, safeY, p.weapon))]
             ELSE [E2 EXCEPT !.player.dropRequested = TRUE]
        ELSE IF "KeyQ" \notin input.keys
        THEN [E2 EXCEPT !.player.dropRequested = FALSE]
        ELSE E2

\* update, "Player Shooting" and "Mobile Auto-Fire".
playerShooting(E, input, now) ==
    LET shot == shoot(E.player, now)
        E1 == IF input.mouseDown
              THEN [E EXCEPT !.player = shot[1], !.bullets = E.bullets \o shot[2]]
              ELSE E
        aimed == [E1.player EXCEPT !.rotation = CHOOSE a \in input.touch : TRUE]
        touched == shoot(aimed, now)
    IN  IF input.touch # {}
        THEN [E1 EXCEPT !.player = touched[1], !.bullets = E1.bullets \o touched[2]]
        ELSE E1

\* update, "NPCs": the forEach from this.npcs[who - 1] on, over every outcome
\* of the random re-plan and of the movement.
RECURSIVE npcsStep(_, _, _, _)
npcsStep(S, who, dt, now) ==
    IF \A E \in S : who > Len(E.npcs) THEN S
    ELSE npcsStep(
            UNION {UNION {LET ai == updateAI(E, who, dt, now, rnd)
                          IN  {[E EXCEPT !.npcs[who] = moved, !.bullets = E.bullets \o ai[2]] :
                                  moved \in update(ai[1], dt, E.tiles, [keys |-> {}])}
                          : rnd \in RandomReplan(E.npcs[who], dt)}
                   : E \in S},
            who + 1, dt, now)

\* The explosion of a rocket: this.explosions.push(new Explosion(...)) for
\* this.bullets[i - 1], logged as a "boom" event whose flag tells a wall hit.
explode(E, i, b, byWall) ==
    IF b.isRocket
    THEN Log([E EXCEPT !.explosions =
                 Append(E.explosions, NewExplosion(b.position.x, b.position.y, b.owner))],
             Event("boom", i, b.owner, 0, byWall))
    ELSE E

\* An "Entity Collision" without `b.owner !== ...`: a bullet hits its owner too.
bulletHits_Owner(E, i, who, now) ==
    LET b == E.bullets[i]
        c == Entity(E, who)
        reach == PlayerRadius + b.radius
    IN  IF Dist2(b.position, c.position) < reach * reach
        THEN explode([damageEntity(Log(E, Event("hit", c.id, b.owner, i, c.isDead)),
                                   who, b.damage, b.owner, now)
                         EXCEPT !.bullets[i].active = FALSE],
                     i, b, FALSE)
        ELSE E

\* update, "Entity Collision" of this.bullets[i - 1] with combatant `who`,
\* logged as a "hit" event.
bulletHits(E, i, who, now) ==
    LET b == E.bullets[i]
        c == Entity(E, who)
        reach == PlayerRadius + b.radius
    IN  IF b.owner # c.id /\ Dist2(b.position, c.position) < reach * reach
        THEN explode([damageEntity(Log(E, Event("hit", c.id, b.owner, i, c.isDead)),
                                   who, b.damage, b.owner, now)
                         EXCEPT !.bullets[i].active = FALSE],
                     i, b, FALSE)
        ELSE E

\* The combatants from `who` on, in the order player, npcs[0], npcs[1], ...
RECURSIVE bulletHitsFrom(_, _, _, _)
bulletHitsFrom(E, i, who, now) ==
    IF who > Len(E.npcs) THEN E
    ELSE bulletHitsFrom(bulletHits(E, i, who, now), i, who + 1, now)

\* update, "Wall Collision" of the moved bullet b, this.bullets[i - 1], on a
\* solid tile: logged as a "wallhit" event with the amount handed to
\* damageWall and whether the tile is a destructible WALL.
wallHit(E, i, b, tileX, tileY, tile) ==
    explode(Log([E EXCEPT !.bullets[i] = [b EXCEPT !.active = FALSE],
                          !.tiles = IF tile = WALL
                                    THEN damageWall(E.tiles, E.wallHealth, tileX, tileY, b.damage)[1]
                                    ELSE E.tiles,
                          !.wallHealth = IF tile = WALL
                                         THEN damageWall(E.tiles, E.wallHealth, tileX, tileY, b.damage)[2]
                                         ELSE E.wallHealth],
                Event("wallhit", i, b.owner, b.damage, tile = WALL)),
            i, b, TRUE)

\* Bullet.update(dt) of this.bullets[i - 1]: b is the bullet after it; a
\* lifetime that has run out is logged as an "expired" event.
moved(E, i, b) ==
    IF b.active THEN [E EXCEPT !.bullets[i] = b]
    ELSE Log([E EXCEPT !.bullets[i] = b], Event("expired", i, b.owner, 0, FALSE))

\* update, "Update Bullets": one turn of the loop, for this.bullets[i - 1].
bulletStep(E, i, dt, now) ==
    LET b == BulletUpdate(E.bullets[i], dt)
        tileX == Floor(b.position.x, TILE_SIZE)
        tileY == Floor(b.position.y, TILE_SIZE)
        tile == getTile(E.tiles, tileX, tileY)
    IN  bulletHitsFrom(IF IsSolid(tile) THEN wallHit(moved(E, i, b), i, b, tileX, tileY, tile)
                       ELSE moved(E, i, b),
                       i, 0, now)

RECURSIVE bulletsFrom(_, _, _, _)
bulletsFrom(E, i, dt, now) ==
    IF i < 1 THEN [E EXCEPT !.bullets = SelectSeq(E.bullets, LAMBDA b : b.active)]
    ELSE bulletsFrom(bulletStep(E, i, dt, now), i - 1, dt, now)

\* update, "Update Bullets" with the filter behind it.
updateBullets(E, dt, now) == bulletsFrom(E, Len(E.bullets), dt, now)

\* Math.sqrt of the square d2 of a distance below the explosion radius.
Sqrt(d2) == CHOOSE r \in 0 .. ExplosionMaxRadius : r * r = d2

\* update, "Explosions": the damage of explosion exp to combatant `who`.
explosionHits(E, exp, who, now) ==
    LET c == Entity(E, who)
        d2 == Dist2(exp.position, c.position)
    IN  IF d2 < ExplosionMaxRadius * ExplosionMaxRadius
        THEN damageEntity(Log(E, Event("blast", c.id, exp.owner, exp.ticks, c.isDead)),
                          who, (100 * HP * (ExplosionMaxRadius - Sqrt(d2))) \div ExplosionMaxRadius,
                          exp.owner, now)
        ELSE E

RECURSIVE explosionHitsFrom(_, _, _, _)
explosionHitsFrom(E, exp, who, now) ==
    IF who > Len(E.npcs) THEN E
    ELSE explosionHitsFrom(explosionHits(E, exp, who, now), exp, who + 1, now)

\* update, "Explosions", "Wall Damage": damageWall(ex + dx, ey + dy, 50) for
\* dx and dy in -range .. range.
explosionWalls(E, exp) ==
    LET ex == Floor(exp.position.x, TILE_SIZE)
        ey == Floor(exp.position.y, TILE_SIZE)
        range == (ExplosionMaxRadius + TILE_SIZE - 1) \div TILE_SIZE
        Struck(x, y) ==
            /\ x >= ex - range /\ x <= ex + range /\ y >= ey - range /\ y <= ey + range
            /\ E.tiles[x][y] = WALL
        T(x, y) == IF Struck(x, y) THEN damageWall(E.tiles, E.wallHealth, x, y, 50 * HP)[1][x][y]
                   ELSE E.tiles[x][y]
        H(x, y) == IF Struck(x, y) THEN damageWall(E.tiles, E.wallHealth, x, y, 50 * HP)[2][x][y]
                   ELSE E.wallHealth[x][y]
    IN  [E EXCEPT !.tiles = Grid(T), !.wallHealth = Grid(H)]

\* update, "Explosions": one turn of the loop, for this.explosions[i - 1].
\* 2 * timeElapsed < 3 * dt is timeElapsed < dt * 1.5.
explosionStep(E, i, dt, now) ==
    LET exp == [ExplosionUpdate(E.explosions[i], dt) EXCEPT !.ticks = @ + 1]
        applied == 2 * exp.timeElapsed < 3 * dt
        E1 == Log([E EXCEPT !.explosions[i] = exp],
                  Event("explosion", NoOwner, exp.owner, exp.ticks, applied))
    IN  IF applied THEN explosionWalls(explosionHitsFrom(E1, exp, 0, now), exp) ELSE E1

RECURSIVE explosionsFrom(_, _, _, _)
explosionsFrom(E, i, dt, now) ==
    IF i < 1 THEN [E EXCEPT !.explosions = SelectSeq(E.explosions, LAMBDA e : e.active)]
    ELSE explosionsFrom(explosionStep(E, i, dt, now), i - 1, dt, now)

updateExplosions(E, dt, now) == explosionsFrom(E, Len(E.explosions), dt, now)

\* A pickup that leaves maxAmmo as it was.
pickup_KeepsMaxAmmo(c, l, now) ==
    LET armed == [c EXCEPT !.weapon = l.weapon, !.currentAmmo = WEAPONS[l.weapon].magSize]
    IN  IF c.isNPC THEN [armed EXCEPT !.weaponPickupTime = now] ELSE armed

\* update, "Loot": the pickup of item l by a combatant.
pickup(c, l, now) ==
    LET armed == [c EXCEPT !.weapon = l.weapon,
                           !.currentAmmo = WEAPONS[l.weapon].magSize,
                           !.maxAmmo = WEAPONS[l.weapon].magSize]
    IN  IF c.isNPC THEN [armed EXCEPT !.weaponPickupTime = now] ELSE armed

LootRadius == 15
PotionRadius == 15
HaloRadius == 20

InRange(a, b, reach) == Dist2(a, b) < reach * reach

\* A loot step whose autonomous combatants pick up while armed.
RECURSIVE lootNpcs_Armed(_, _, _, _)
lootNpcs_Armed(E, k, who, now) ==
    IF who > Len(E.npcs) THEN E
    ELSE IF InRange(E.loot[k].position, E.npcs[who].position, PlayerRadius + LootRadius)
    THEN lootNpcs_Armed(Log([E EXCEPT !.npcs[who] = pickup(E.npcs[who], E.loot[k], now),
                                      !.loot[k].active = FALSE],
                            Event("pickup", E.npcs[who].id, k, k, E.npcs[who].isDead)),
                        k, who + 1, now)
    ELSE lootNpcs_Armed(E, k, who + 1, now)

\* update, "Loot", "NPCs pick up loot too!": the forEach from this.npcs[who - 1] on.
RECURSIVE lootNpcs(_, _, _, _)
lootNpcs(E, k, who, now) ==
    IF who > Len(E.npcs) THEN E
    ELSE LET npc == E.npcs[who]
             l == E.loot[k]
         IN  IF InRange(l.position, npc.position, PlayerRadius + LootRadius) /\ npc.weapon = NoWeapon
             THEN lootNpcs(Log([E EXCEPT !.npcs[who] = pickup(npc, l, now),
                                         !.loot[k].active = FALSE],
                               Event("pickup", npc.id, k, k, npc.isDead)),
                           k, who + 1, now)
             ELSE lootNpcs(E, k, who + 1, now)

\* update, "Loot": the forEach from this.loot[k - 1] on, and the filter.
RECURSIVE updateLoot(_, _, _)
updateLoot(E, k, now) ==
    IF k > Len(E.loot) THEN [E EXCEPT !.loot = SelectSeq(E.loot, LAMBDA l : l.active)]
    ELSE LET l == E.loot[k]
             p == E.player
             E1 == IF /\ InRange(l.position, p.position, PlayerRadius + LootRadius)
                      /\ p.weapon = NoWeapon
                   THEN Log([E EXCEPT !.player = pickup(p, l, now), !.loot[k].active = FALSE],
                            Event("pickup", p.id, k, k, p.isDead))
                   ELSE E
         IN  IF l.active THEN updateLoot(lootNpcs(E1, k, 1, now), k + 1, now)
             ELSE updateLoot(E, k + 1, now)

\* update, "Potions", "Check NPCs": the forEach from this.npcs[who - 1] on.
RECURSIVE potionNpcs(_, _, _)
potionNpcs(E, k, who) ==
    IF who > Len(E.npcs) THEN E
    ELSE IF /\ E.potions[k].active
            /\ InRange(E.potions[k].position, E.npcs[who].position, PlayerRadius + PotionRadius)
    THEN potionNpcs(consumePotion(Log(E, Event("potion", E.npcs[who].id, k, k, E.npcs[who].isDead)),
                                  who, k),
                    k, who + 1)
    ELSE potionNpcs(E, k, who + 1)

\* update, "Potions": the forEach from this.potions[k - 1] on, and the filter.
RECURSIVE updatePotions(_, _)
updatePotions(E, k) ==
    IF k > Len(E.potions) THEN [E EXCEPT !.potions = SelectSeq(E.potions, LAMBDA p : p.active)]
    ELSE LET E1 == IF InRange(E.potions[k].position, E.player.position,
                              PlayerRadius + PotionRadius)
                   THEN consumePotion(Log(E, Event("potion", E.player.id, k, k, E.player.isDead)),
                                      0, k)
                   ELSE E
         IN  IF E.potions[k].active THEN updatePotions(potionNpcs(E1, k, 1), k + 1)
             ELSE updatePotions(E, k + 1)

\* update, "Swift Halo", "Check NPCs (Coincidence pickup)".
RECURSIVE haloNpcs(_, _)
haloNpcs(E, who) ==
    IF who > Len(E.npcs) THEN E
    ELSE IF /\ E.swiftHalo.active
            /\ InRange(E.swiftHalo.position, E.npcs[who].position, PlayerRadius + HaloRadius)
    THEN haloNpcs(spawnDashParticles(
                      Log([E EXCEPT !.swiftHalo.active = FALSE, !.npcs[who].hasHalo = TRUE],
                          Event("halo", E.npcs[who].id, 0, 0, E.npcs[who].isDead)),
                      E.npcs[who]),
                  who + 1)
    ELSE haloNpcs(E, who + 1)

\* update, "Swift Halo".
updateHalo(E) ==
    IF ~E.swiftHalo.active THEN E
    ELSE IF InRange(E.swiftHalo.position, E.player.position, PlayerRadius + HaloRadius)
    THEN spawnDashParticles(
             Log([E EXCEPT !.swiftHalo.active = FALSE, !.player.hasHalo = TRUE],
                 Event("halo", E.player.id, 0, 0, E.player.isDead)),
             E.player)
    ELSE haloNpcs(E, 1)

\* update, "Particles".
updateParticles(E, dt) ==
    [E EXCEPT !.particles =
        SelectSeq([k \in 1 .. Len(E.particles) |->
                      [E.particles[k] EXCEPT !.life = E.particles[k].life - dt]],
                  LAMBDA q : q.life > 0)]

\* A "Check Victory" block without the test of gameEndTime.
victory_Overwrites(E, now) ==
    onWinner(Log([E EXCEPT !.gameEndTime = now],
                 Event("victory", 0, 0, Len(E.winners), E.gameEndTime = NoTime)),
             "Player")

\* The "Check Victory" block: the callbacks' calls, logged as a "victory"
\* event whose flag tells that gameEndTime was null.
victory(E, now) ==
    onWinner(Log(IF E.gameEndTime = NoTime THEN [E EXCEPT !.gameEndTime = now] ELSE E,
                 Event("victory", 0, 0, Len(E.winners), E.gameEndTime = NoTime)),
             "Player")

\* A regeneration without Math.min(this.player.maxHealth, ...).
regen_NoCap(E, dt, now) ==
    IF now - E.player.lastDamageTime > 500
    THEN Log([E EXCEPT !.player.health = E.player.health + (dt * 2 * HP) \div 100],
             Event("regen", 0, dt, E.player.health, E.player.isDead))
    ELSE E

\* update, "Regen", logged as a "regen" event with the timestep, the health
\* before and whether the controlled combatant is dead.
regen(E, dt, now) ==
    IF now - E.player.lastDamageTime > 500
    THEN Log([E EXCEPT !.player.health =
                 IF maxHealth < E.player.health + (dt * 2 * HP) \div 100 THEN maxHealth
                 ELSE E.player.health + (dt * 2 * HP) \div 100],
             Event("regen", 0, dt, E.player.health, E.player.isDead))
    ELSE E

\* update, "Cleanup Dead NPCs": the filter.
cleanup(E) == [E EXCEPT !.npcs = SelectSeq(E.npcs, LAMBDA n : ~n.isDead)]

\* A "Check Victory" that reads this.npcs before the dead are filtered out.
checkVictory_BeforeCleanup(E, before, now) ==
    IF Len(before.npcs) = 0 /\ ~E.player.isDead THEN victory(E, now) ELSE E

\* update, "Check Victory", on the engine E after the cleanup of `before`.
checkVictory(E, before, now) ==
    IF Len(E.npcs) = 0 /\ ~E.player.isDead THEN victory(E, now) ELSE E

\* update, "Cleanup Dead NPCs", "Check Victory" and "Regen".
endOfTick(E, dt, now) == regen(checkVictory(cleanup(E), E, now), dt, now)

\* The engine's fields as one value, and the step to a value E of them.
Engine ==
    [tiles |-> tiles, wallHealth |-> wallHealth, player |-> player, npcs |-> npcs,
     bullets |-> bullets, explosions |-> explosions, loot |-> loot, potions |-> potions,
     swiftHalo |-> swiftHalo, particles |-> particles,
     gameStartTime |-> gameStartTime, gameEndTime |-> gameEndTime,
     winners |-> winners, kills |-> kills, events |-> <<>>]

Becomes(E) ==
    /\ tiles' = E.tiles /\ wallHealth' = E.wallHealth
    /\ player' = E.player /\ npcs' = E.npcs
    /\ bullets' = E.bullets /\ explosions' = E.explosions
    /\ loot' = E.loot /\ potions' = E.potions
    /\ swiftHalo' = E.swiftHalo /\ particles' = E.particles
    /\ gameStartTime' = E.gameStartTime /\ gameEndTime' = E.gameEndTime
    /\ winners' = E.winners /\ kills' = E.kills /\ events' = E.events

(***************************************************************************)
(* Construction and reset.  The random draws of the spawn functions are    *)
(* taken from the tiles below, on the spawn row.                           *)
(***************************************************************************)
\* The pseudo-random streams the engine's maps are generated from.
EngineSeeds == {3}
\* spawnLoot, spawnPotions and spawnNPCs make up to 18, 4 and 15 draws; the
\* model makes up to MaxLoot, MaxPotions and MaxNPCs.
MaxLoot == 2
MaxPotions == 1
MaxNPCs == 2
\* The tile of the i-th draw of spawnLoot and of spawnPotions.
LootTiles == <<5, 7>>
PotionTiles == <<7>>
\* The tile of the i-th draw of spawnNPCs that finds a position, and the
\* weapons the draws of spawnLoot choose from.
NPCTiles == <<10, 15>>
LootKinds == {"Sniper Rifle", "Rocket Launcher"}

\* findValidSpawnPosition(avoidEntities, minDist) for the drawn tile:
\* whether the draw is accepted.
validSpawn(t, tile, avoid, minDist) ==
    /\ getTile(t, tile[1], tile[2]) = FLOOR
    /\ \A a \in avoid : Dist2(TileCenter(tile), a) >= minDist * minDist

\* spawnLoot(): the lists it can append.
RECURSIVE spawnLoot(_, _)
spawnLoot(t, i) ==
    IF i > MaxLoot \/ i > Len(LootTiles) THEN {<<>>}
    ELSE LET tile == <<LootTiles[i], SpawnTile>>
             pos == TileCenter(tile)
         IN  IF validSpawn(t, tile, {}, 0)
             THEN {<<NewLoot(pos.x, pos.y, weapon)>> \o rest :
                      weapon \in LootKinds, rest \in spawnLoot(t, i + 1)}
             ELSE spawnLoot(t, i + 1)

\* new Potion(x, y)
NewPotion(x, y) == [position |-> Vec(x, y), active |-> TRUE]

\* spawnPotions(): the lists it can append.
RECURSIVE spawnPotions(_, _)
spawnPotions(t, i) ==
    IF i > MaxPotions \/ i > Len(PotionTiles) THEN {<<>>}
    ELSE LET tile == <<PotionTiles[i], SpawnTile>>
             pos == TileCenter(tile)
         IN  IF validSpawn(t, tile, {}, 0)
             THEN {<<NewPotion(pos.x, pos.y)>> \o rest : rest \in spawnPotions(t, i + 1)}
             ELSE spawnPotions(t, i + 1)

\* spawnSwiftHalo(): new SwiftHalo at the centre of cityHouseRect.
houseW == 12
houseH == 8
spawnSwiftHalo ==
    [position |-> Vec((Floor(width - houseW, 2) + houseW \div 2) * TILE_SIZE,
                      (Floor(height - houseH, 2) + houseH \div 2) * TILE_SIZE),
     active |-> TRUE]

\* spawnNPCs(count): the lists this.npcs can become, from the list so far.
\* A draw that finds no position ends the model's draws.
RECURSIVE spawnNPCs(_, _, _, _)
spawnNPCs(t, p, list, count) ==
    LET avoid == {p.position} \cup {list[k].position : k \in 1 .. Len(list)}
        i == Len(list) + 1
        tile == <<NPCTiles[i], SpawnTile>>
    IN  IF count = 0 \/ i > Len(NPCTiles) THEN {list}
        ELSE IF ~validSpawn(t, tile, avoid, 5 * TILE_SIZE) THEN {list}
        ELSE (IF Len(list) > 0 THEN {list} ELSE {})
             \cup spawnNPCs(t, p,
                     Append(list, NewPlayer(i, TileCenter(tile).x, TileCenter(tile).y, TRUE)),
                     count - 1)

\* The engine after its constructor and start(), or after reset(), at clock
\* `now`; reset() calls spawnLoot() twice (the constructor once).  A reset is
\* logged as a "restart" event with the flag TRUE.
Fresh(now, isReset) ==
    UNION {LET t == generateKowloonMap(seed)
               p == NewPlayer(0, TileCenter(<<SpawnTile, SpawnTile>>).x,
                              TileCenter(<<SpawnTile, SpawnTile>>).y, FALSE)
           IN  {[tiles |-> t, wallHealth |-> InitialWallHealth, player |-> p, npcs |-> n,
                 bullets |-> <<>>, explosions |-> <<>>, loot |-> l1 \o l2, potions |-> po,
                 swiftHalo |-> spawnSwiftHalo, particles |-> <<>>,
                 gameStartTime |-> now, gameEndTime |-> NoTime,
                 winners |-> <<>>, kills |-> 0,
                 events |-> IF isReset THEN <<Event("restart", 0, 0, 0, TRUE)>> ELSE <<>>] :
                  l1 \in spawnLoot(t, 1),
                  l2 \in IF isReset THEN spawnLoot(t, 1) ELSE {<<>>},
                  po \in spawnPotions(t, 1),
                  n \in spawnNPCs(t, p, <<>>, MaxNPCs)}
           : seed \in EngineSeeds}

(***************************************************************************)
(* The tick                                                                *)
(***************************************************************************)
\* update(dt) from "Player Input" on, at clock `now`: the states it can end in.
play(E, dt, input, now) ==
    LET E1 == playerInput(E, input, now)
        S2 == {[E1 EXCEPT !.player = p] : p \in update(E1.player, dt, E1.tiles, input)}
        S3 == {playerShooting(E2, input, now) : E2 \in S2}
        S4 == npcsStep(S3, 1, dt, now)
    IN  {endOfTick(
            updateParticles(
                updateHalo(
                    updatePotions(
                        updateLoot(updateExplosions(updateBullets(E4, dt, now), dt, now), 1, now),
                        1)),
                dt),
            dt, now)
         : E4 \in S4}

\* A restart intent that resets nothing, logged as a "restart" event with
\* the flag FALSE.
ignored(E) == Log(E, Event("restart", 0, 0, 0, FALSE))

\* A tick that resets on the R key whatever the state of the match.
tick_AlwaysRestarts(E, dt, input, now) ==
    IF "KeyR" \in input.keys THEN Fresh(now, TRUE)
    ELSE IF E.player.isDead THEN {E}
    ELSE play(E, dt, input, now)

\* A tick that plays on after the death of the controlled combatant.
tick_DeadPlays(E, dt, input, now) ==
    IF "KeyR" \in input.keys /\ (E.player.isDead \/ Len(E.npcs) = 0) THEN Fresh(now, TRUE)
    ELSE play(IF "KeyR" \in input.keys THEN ignored(E) ELSE E, dt, input, now)

\* update(dt) at clock `now`: the states it can end in.
tick(E, dt, input, now) ==
    IF "KeyR" \in input.keys /\ (E.player.isDead \/ Len(E.npcs) = 0) THEN Fresh(now, TRUE)
    ELSE IF E.player.isDead THEN {E}
    ELSE play(IF "KeyR" \in input.keys THEN ignored(E) ELSE E, dt, input, now)

\* getUIState().elapsedTime at clock `now`.
elapsedTime(E, now) ==
    IF E.gameEndTime # NoTime THEN E.gameEndTime - E.gameStartTime ELSE now - E.gameStartTime

\* triggerDash()
triggerDash(E, now) == dashCall(E, dash(E.player, now))

\* handleTouchShoot(clientX, clientY), the tap in direction `aim`.
handleTouchShoot(E, aim, now) ==
    LET shot == shoot([E.player EXCEPT !.rotation = aim], now)
    IN  [E EXCEPT !.player = shot[1], !.bullets = E.bullets \o shot[2]]

\* triggerRestart()
triggerRestart(E, now) ==
    IF E.player.isDead \/ Len(E.npcs) = 0 THEN Fresh(now, TRUE) ELSE {ignored(E)}

(***************************************************************************)
(* The engine as a state machine                                           *)
(***************************************************************************)
\* performance.now() when the engine is started.
StartTime == 200
\* The clock stops the model at MaxTime.
MaxTime == 600
\* The timesteps of the frames after the first, whose timestep is 0:
\* start() calls loop(this.lastTime).
DTs == {10, 290}

Frame(keys, mouseDown, aim, touch) ==
    [keys |-> keys, mouseDown |-> mouseDown, aim |-> aim, touch |-> touch]
NoTouch == {}
\* The input frames of a fight: idle, walk right, fire right.
CombatInputs ==
    {Frame({}, FALSE, 0, NoTouch), Frame({"KeyD"}, FALSE, 0, NoTouch),
     Frame({}, TRUE, 0, NoTouch)}
\* All input frames: those and walk left, fire left, the R, Space and Q keys,
\* and a touch target to the right.
Inputs ==
    CombatInputs \cup
    {Frame({"KeyA"}, FALSE, 180, NoTouch), Frame({}, TRUE, 180, NoTouch),
     Frame({"KeyR"}, FALSE, 0, NoTouch), Frame({"Space"}, FALSE, 0, NoTouch),
     Frame({"KeyQ"}, FALSE, 0, NoTouch), Frame({}, FALSE, 0, {0})}

Init ==
    /\ clock = StartTime
    /\ frames = 0
    /\ commands = 0
    /\ \E E \in Fresh(StartTime, FALSE) :
        /\ tiles = E.tiles /\ wallHealth = E.wallHealth
        /\ player = E.player /\ npcs = E.npcs
        /\ bullets = E.bullets /\ explosions = E.explosions
        /\ loot = E.loot /\ potions = E.potions
        /\ swiftHalo = E.swiftHalo /\ particles = E.particles
        /\ gameStartTime = E.gameStartTime /\ gameEndTime = E.gameEndTime
        /\ winners = E.winners /\ kills = E.kills /\ events = E.events

\* loop(time): one frame, dt after the last, of at most `most` frames with
\* an input frame of `inputs`.
Loop(inputs, most) ==
    \E dt \in (IF frames = 0 THEN {0} ELSE DTs), input \in inputs :
        /\ clock + dt <= MaxTime
        /\ frames < most
        /\ clock' = clock + dt
        /\ frames' = frames + 1
        /\ UNCHANGED commands
        /\ \E E \in tick(Engine, dt, input, clock + dt) : Becomes(E)

\* A call of a command method between two frames, of at most MaxCommands.
MaxCommands == 1
Command ==
    /\ commands < MaxCommands
    /\ commands' = commands + 1
    /\ UNCHANGED <<clock, frames>>

TriggerDash == Command /\ Becomes(triggerDash(Engine, clock))

HandleTouchShoot ==
    \E aim \in {0, 180} : Command /\ Becomes(handleTouchShoot(Engine, aim, clock))

TriggerRestart == Command /\ \E E \in triggerRestart(Engine, clock) : Becomes(E)

\* Every input and every command, for MaxFrames frames.
MaxFrames == 2
Tick == Loop(Inputs, MaxFrames)
Next == Tick \/ TriggerDash \/ HandleTouchShoot \/ TriggerRestart
Spec == Init /\ [][Next]_vars

\* A fight: the inputs of CombatInputs, for MaxCombatFrames frames.
MaxCombatFrames == 4
CombatTick == Loop(CombatInputs, MaxCombatFrames)
CombatNext == CombatTick \/ TriggerRestart
CombatSpec == Init /\ [][CombatNext]_vars

\* The input frames of restart intents in a fight: fire right, the R key.
RestartInputs == {Frame({}, TRUE, 0, NoTouch), Frame({"KeyR"}, FALSE, 0, NoTouch)}
\* Restart intents in a fight: those frames, and triggerRestart.
RestartTick == Loop(RestartInputs, MaxCombatFrames)
RestartNext == RestartTick \/ TriggerRestart
RestartSpec == Init /\ [][RestartNext]_vars

(***************************************************************************)
(* damageEntity and shoot on their own: an engine whose combatants have    *)
(* the health, shield and magazine drawn below, then calls of the two.     *)
(***************************************************************************)
\* The calls of one run.
MaxUnitCalls == 2
UnitHealths == {0, 80 * HP, 100 * HP}
UnitShields == {0, 10 * HP, 50 * HP}
UnitNPCHealths == {30 * HP, 100 * HP}
UnitDamages == {0, 10 * HP, 30 * HP, 50 * HP, 100 * HP}

\* The magazines drawn: none, or a Rocket Launcher that is empty or full,
\* fired just now or long ago, reloading or not.
UnitArms ==
    {[weapon |-> NoWeapon, currentAmmo |-> 0, maxAmmo |-> 0, lastShotTime |-> 0,
      isReloading |-> FALSE, reloadTimer |-> 0]}
    \cup {[weapon |-> "Rocket Launcher", currentAmmo |-> a,
           maxAmmo |-> WEAPONS["Rocket Launcher"].magSize, lastShotTime |-> t,
           isReloading |-> r,
           reloadTimer |-> IF r THEN WEAPONS["Rocket Launcher"].reloadTime ELSE 0] :
            a \in {0, WEAPONS["Rocket Launcher"].magSize}, t \in {0, StartTime},
            r \in BOOLEAN}

UnitInit ==
    /\ clock = StartTime
    /\ frames = 0
    /\ commands = 0
    /\ \E E \in {CHOOSE F \in Fresh(StartTime, FALSE) : Len(F.npcs) = 1} :
       \E h \in UnitHealths, s \in UnitShields, arms \in UnitArms, nh \in UnitNPCHealths :
            /\ tiles = E.tiles /\ wallHealth = E.wallHealth
            /\ player = [E.player EXCEPT !.health = h, !.shield = s,
                                         !.weapon = arms.weapon,
                                         !.currentAmmo = arms.currentAmmo,
                                         !.maxAmmo = arms.maxAmmo,
                                         !.lastShotTime = arms.lastShotTime,
                                         !.isReloading = arms.isReloading,
                                         !.reloadTimer = arms.reloadTimer]
            /\ npcs = [E.npcs EXCEPT ![1].health = nh]
            /\ bullets = E.bullets /\ explosions = E.explosions
            /\ loot = E.loot /\ potions = E.potions
            /\ swiftHalo = E.swiftHalo /\ particles = E.particles
            /\ gameStartTime = E.gameStartTime /\ gameEndTime = E.gameEndTime
            /\ winners = E.winners /\ kills = E.kills /\ events = E.events

UnitCall ==
    /\ commands < MaxUnitCalls
    /\ commands' = commands + 1
    /\ UNCHANGED <<clock, frames>>

\* damageEntity(entity, amount, dealer), logged as a "damage" event.
UnitDamage ==
    \E who \in 0 .. Len(npcs), amount \in UnitDamages, dealer \in {0, NoOwner} :
        /\ UnitCall
        /\ Becomes(damageEntity(
               Log(Engine, Event("damage", who, dealer, amount, Entity(Engine, who).isDead)),
               who, amount, dealer, clock))

\* this.player.shoot(), the bullets pushed to this.bullets; logged as a
\* "shoot" event with the number of bullets.
UnitShoot ==
    LET shot == shoot(player, clock)
    IN  /\ UnitCall
        /\ Becomes(Log([Engine EXCEPT !.player = shot[1], !.bullets = bullets \o shot[2]],
                       Event("shoot", 0, 0, Len(shot[2]), FALSE)))

UnitNext == UnitDamage \/ UnitShoot
UnitSpec == UnitInit /\ [][UnitNext]_vars

(***************************************************************************)
(* shoot, reload and dash on their own: the controlled combatant with a    *)
(* magazine and a dash state drawn below, then calls of the three.         *)
(***************************************************************************)
\* The dash states drawn: never dashed, dashed a second ago, dashing now.
ArmsInit ==
    /\ clock = StartTime
    /\ frames = 0
    /\ commands = 0
    /\ \E E \in {CHOOSE F \in Fresh(StartTime, FALSE) : Len(F.npcs) = 1} :
       \E arms \in UnitArms, aim \in {0, 180},
          dashes \in {[isDashing |-> FALSE, lastDashTime |-> -1000, dashTimer |-> 0],
                      [isDashing |-> FALSE, lastDashTime |-> StartTime - 100, dashTimer |-> 0],
                      [isDashing |-> TRUE, lastDashTime |-> StartTime - 10,
                       dashTimer |-> dashDuration - 10]} :
            /\ tiles = E.tiles /\ wallHealth = E.wallHealth
            /\ player = [E.player EXCEPT !.weapon = arms.weapon,
                                         !.currentAmmo = arms.currentAmmo,
                                         !.maxAmmo = arms.maxAmmo,
                                         !.lastShotTime = arms.lastShotTime,
                                         !.isReloading = arms.isReloading,
                                         !.reloadTimer = arms.reloadTimer,
                                         !.isDashing = dashes.isDashing,
                                         !.lastDashTime = dashes.lastDashTime,
                                         !.dashTimer = dashes.dashTimer,
                                         !.rotation = aim,
                                         !.velocity = IF dashes.isDashing
                                                      THEN Vec(Cos(aim) * 1000, 0) ELSE Vec(0, 0)]
            /\ npcs = E.npcs
            /\ bullets = E.bullets /\ explosions = E.explosions
            /\ loot = E.loot /\ potions = E.potions
            /\ swiftHalo = E.swiftHalo /\ particles = E.particles
            /\ gameStartTime = E.gameStartTime /\ gameEndTime = E.gameEndTime
            /\ winners = E.winners /\ kills = E.kills /\ events = E.events

\* this.player.reload(), logged as a "reload" event.
ArmsReload ==
    /\ UnitCall
    /\ Becomes(Log([Engine EXCEPT !.player = reload(player)], Event("reload", 0, 0, 0, FALSE)))

\* this.player.dash(), logged as a "dash" event with the result.
ArmsDash ==
    /\ UnitCall
    /\ Becomes(Log([Engine EXCEPT !.player = dash(player, clock)[1]],
                   Event("dash", 0, 0, 0, dash(player, clock)[2])))

ArmsNext == UnitShoot \/ ArmsReload \/ ArmsDash
ArmsSpec == ArmsInit /\ [][ArmsNext]_vars

(***************************************************************************)
(* Ticks of a match that has run for two seconds: the controlled combatant *)
(* with a health and a last damage instant drawn below, next to an         *)
(* opponent that is unarmed or holds a Rocket Launcher.                    *)
(***************************************************************************)
\* The frames of one run.
MaxRegenFrames == 3

RegenInit ==
    /\ clock = StartTime + 200
    /\ frames = 0
    /\ commands = 0
    /\ \E E \in {CHOOSE F \in Fresh(StartTime, FALSE) : Len(F.npcs) = 1} :
       \E hurt \in {[health |-> 100 * HP, isDead |-> FALSE, lastDamageTime |-> 0],
                    [health |-> 80 * HP, isDead |-> FALSE, lastDamageTime |-> StartTime + 10],
                    [health |-> 100 * HP - 1, isDead |-> FALSE, lastDamageTime |-> StartTime + 10],
                    [health |-> 80 * HP, isDead |-> FALSE, lastDamageTime |-> StartTime + 190],
                    [health |-> 0, isDead |-> TRUE, lastDamageTime |-> StartTime + 10]},
          armed \in BOOLEAN, nh \in {30 * HP, 100 * HP} :
            /\ tiles = E.tiles /\ wallHealth = E.wallHealth
            /\ player = [E.player EXCEPT !.health = hurt.health, !.isDead = hurt.isDead,
                                         !.deaths = IF hurt.isDead THEN 1 ELSE 0,
                                         !.lastDamageTime = hurt.lastDamageTime]
            /\ npcs = [E.npcs EXCEPT ![1].health = nh,
                                     ![1].lastDamageTime = IF nh < 100 * HP THEN StartTime + 10 ELSE 0,
                                     ![1].weapon = IF armed THEN "Rocket Launcher" ELSE NoWeapon,
                                     ![1].currentAmmo = IF armed THEN WEAPONS["Rocket Launcher"].magSize ELSE 0,
                                     ![1].maxAmmo = IF armed THEN WEAPONS["Rocket Launcher"].magSize ELSE 0,
                                     ![1].weaponPickupTime = IF armed THEN StartTime ELSE 0]
            /\ bullets = E.bullets /\ explosions = E.explosions
            /\ loot = E.loot /\ potions = E.potions
            /\ swiftHalo = E.swiftHalo /\ particles = E.particles
            /\ gameStartTime = E.gameStartTime
            /\ gameEndTime = IF hurt.isDead THEN hurt.lastDamageTime ELSE E.gameEndTime
            /\ winners = IF hurt.isDead THEN <<"GAME OVER">> ELSE E.winners
            /\ kills = E.kills /\ events = E.events

\* loop(time): one frame, dt after the last, idle or firing right.
RegenTick ==
    \E dt \in DTs, input \in {Frame({}, FALSE, 0, NoTouch), Frame({}, TRUE, 0, NoTouch)} :
        /\ frames < MaxRegenFrames
        /\ clock' = clock + dt
        /\ frames' = frames + 1
        /\ UNCHANGED commands
        /\ \E E \in tick(Engine, dt, input, clock + dt) : Becomes(E)

RegenSpec == RegenInit /\ [][RegenTick]_vars

\* loop(time) in that match: one frame, firing right or with the R key down.
DeadTick ==
    \E dt \in DTs, input \in {Frame({}, TRUE, 0, NoTouch), Frame({"KeyR"}, FALSE, 0, NoTouch)} :
        /\ frames < MaxRegenFrames
        /\ clock' = clock + dt
        /\ frames' = frames + 1
        /\ UNCHANGED commands
        /\ \E E \in tick(Engine, dt, input, clock + dt) : Becomes(E)

\* Those ticks with the commands of the touch controls between them.
DeadNext == DeadTick \/ TriggerDash \/ HandleTouchShoot \/ TriggerRestart
DeadSpec == RegenInit /\ [][DeadNext]_vars

(***************************************************************************)
(* Ticks with a bullet in flight: the controlled combatant on the spawn    *)
(* tile holds one of the five weapons and has fired to the left, where an  *)
(* unarmed opponent stands against the wall at the end of the row.         *)
(***************************************************************************)
\* The frames of one run.
MaxBulletFrames == 2

\* The places the controlled combatant has fired weapon w from, to the left,
\* in the tick before (dt = 0.1 s): two ticks of flight short of the wall
\* tile next to the opponent, and of the opponent, and far from both.
FiredFrom(w) ==
    {(2 * TILE_SIZE - 1) + 30 + 2 * (WEAPONS[w].speed \div 10),
     3 * TILE_SIZE + 30 + 2 * (WEAPONS[w].speed \div 10),
     TileCenter(<<SpawnTile, SpawnTile>>).x + 10 * TILE_SIZE}

\* The controlled combatant of engine E at x with a full weapon w, facing
\* left, and its shoot() one tick of 0.1 s before `now`.
Shooter(E, w, x) ==
    [E.player EXCEPT !.position.x = x, !.weapon = w,
                     !.currentAmmo = WEAPONS[w].magSize, !.maxAmmo = WEAPONS[w].magSize,
                     !.rotation = 180]
Fired(E, w, x, now) == shoot(Shooter(E, w, x), now - 10)

BulletInit ==
    /\ clock = StartTime + 200
    /\ frames = 0
    /\ commands = 0
    /\ \E E \in {CHOOSE F \in Fresh(StartTime, FALSE) : Len(F.npcs) = 1} :
       \E w \in WeaponType : \E x \in FiredFrom(w) :
            /\ tiles = E.tiles /\ wallHealth = E.wallHealth
            /\ player = Fired(E, w, x, StartTime + 200)[1]
            /\ npcs = [E.npcs EXCEPT ![1].position = TileCenter(<<2, SpawnTile>>)]
            /\ bullets = [k \in DOMAIN Fired(E, w, x, StartTime + 200)[2] |->
                             BulletUpdate(Fired(E, w, x, StartTime + 200)[2][k], 10)]
            /\ explosions = E.explosions
            /\ loot = <<>> /\ potions = <<>>
            /\ swiftHalo = E.swiftHalo /\ particles = E.particles
            /\ gameStartTime = E.gameStartTime /\ gameEndTime = E.gameEndTime
            /\ winners = E.winners /\ kills = E.kills /\ events = E.events

\* loop(time): one frame, 0.02 s or 0.1 s after the last, idle or firing
\* left.
BulletTick ==
    \E dt \in {2, 10}, input \in {Frame({}, FALSE, 180, NoTouch), Frame({}, TRUE, 180, NoTouch)} :
        /\ frames < MaxBulletFrames
        /\ clock' = clock + dt
        /\ frames' = frames + 1
        /\ UNCHANGED commands
        /\ \E E \in tick(Engine, dt, input, clock + dt) : Becomes(E)

BulletNext == BulletTick \/ TriggerDash
BulletSpec == BulletInit /\ [][BulletNext]_vars

(***************************************************************************)
(* Dashes: the Space key in the frames of a fresh match, and triggerDash   *)
(* between them.                                                           *)
(***************************************************************************)
\* The frames of one run.
MaxDashFrames == 3

\* loop(time): one frame, dt after the last, idle or with the Space key.
DashTick ==
    \E dt \in DTs, input \in {Frame({}, FALSE, 0, NoTouch), Frame({"Space"}, FALSE, 0, NoTouch)} :
        /\ frames < MaxDashFrames
        /\ clock' = clock + dt
        /\ frames' = frames + 1
        /\ UNCHANGED commands
        /\ \E E \in tick(Engine, dt, input, clock + dt) : Becomes(E)

DashNext == DashTick \/ TriggerDash
DashSpec == Init /\ [][DashNext]_vars

(***************************************************************************)
(* Reload, drop and pickup: the controlled combatant, ten seconds into a   *)
(* match, holds a Sniper Rifle it has fired, and stands on an SMG or on    *)
(* bare floor.                                                             *)
(***************************************************************************)
\* The frames of one run.
MaxReloadFrames == 3

ReloadInit ==
    /\ clock = StartTime + 1000
    /\ frames = 0
    /\ commands = 0
    /\ \E E \in {CHOOSE F \in Fresh(StartTime, FALSE) : Len(F.npcs) = 1} :
       \E ammo \in {0, 3}, under \in BOOLEAN :
            /\ tiles = E.tiles /\ wallHealth = E.wallHealth
            /\ player = [E.player EXCEPT !.weapon = "Sniper Rifle",
                                         !.currentAmmo = ammo,
                                         !.maxAmmo = WEAPONS["Sniper Rifle"].magSize,
                                         !.lastShotTime = StartTime + 800]
            /\ npcs = E.npcs
            /\ bullets = E.bullets /\ explosions = E.explosions
            /\ loot = IF under
                      THEN <<NewLoot(E.player.position.x, E.player.position.y, "SMG")>>
                      ELSE <<>>
            /\ potions = E.potions
            /\ swiftHalo = E.swiftHalo /\ particles = E.particles
            /\ gameStartTime = E.gameStartTime /\ gameEndTime = E.gameEndTime
            /\ winners = E.winners /\ kills = E.kills /\ events = E.events

\* loop(time): one frame, dt after the last: idle, the R key, the Q key, or
\* firing right.
ReloadTick ==
    \E dt \in {10, 100},
       input \in {Frame({}, FALSE, 0, NoTouch), Frame({"KeyR"}, FALSE, 0, NoTouch),
                  Frame({"KeyQ"}, FALSE, 0, NoTouch), Frame({}, TRUE, 0, NoTouch)} :
        /\ frames < MaxReloadFrames
        /\ clock' = clock + dt
        /\ frames' = frames + 1
        /\ UNCHANGED commands
        /\ \E E \in tick(Engine, dt, input, clock + dt) : Becomes(E)

ReloadSpec == ReloadInit /\ [][ReloadTick]_vars

(***************************************************************************)
(* Ticks of a fight with one opponent: two seconds into a match the        *)
(* opponent stands 200 or 400 pixels from the controlled combatant,        *)
(* unhurt or hurt, unarmed or with an SMG picked up two seconds or a       *)
(* moment ago.                                                             *)
(***************************************************************************)
\* The frames of one run.
MaxFightFrames == 2

FightInit ==
    /\ clock = StartTime + 200
    /\ frames = 0
    /\ commands = 0
    /\ \E E \in {CHOOSE F \in Fresh(StartTime, FALSE) : Len(F.npcs) = 1} :
       \E x \in {E.player.position.x + 200, E.player.position.x + 400},
          nh \in {30 * HP, 100 * HP},
          arms \in {[weapon |-> NoWeapon, magSize |-> 0, weaponPickupTime |-> 0],
                    [weapon |-> "SMG", magSize |-> WEAPONS["SMG"].magSize,
                     weaponPickupTime |-> StartTime],
                    [weapon |-> "SMG", magSize |-> WEAPONS["SMG"].magSize,
                     weaponPickupTime |-> StartTime + 190]} :
            /\ tiles = E.tiles /\ wallHealth = E.wallHealth
            /\ player = E.player
            /\ npcs = [E.npcs EXCEPT ![1].position.x = x,
                                     ![1].health = nh,
                                     ![1].lastDamageTime = IF nh < 100 * HP THEN StartTime + 10 ELSE 0,
                                     ![1].weapon = arms.weapon,
                                     ![1].currentAmmo = arms.magSize,
                                     ![1].maxAmmo = arms.magSize,
                                     ![1].weaponPickupTime = arms.weaponPickupTime]
            /\ bullets = E.bullets /\ explosions = E.explosions
            /\ loot = E.loot /\ potions = E.potions
            /\ swiftHalo = E.swiftHalo /\ particles = E.particles
            /\ gameStartTime = E.gameStartTime /\ gameEndTime = E.gameEndTime
            /\ winners = E.winners /\ kills = E.kills /\ events = E.events

\* loop(time): one frame, dt after the last: idle, walking right or firing
\* right.
FightTick ==
    \E dt \in DTs,
       input \in {Frame({}, FALSE, 0, NoTouch), Frame({"KeyD"}, FALSE, 0, NoTouch),
                  Frame({}, TRUE, 0, NoTouch)} :
        /\ frames < MaxFightFrames
        /\ clock' = clock + dt
        /\ frames' = frames + 1
        /\ UNCHANGED commands
        /\ \E E \in tick(Engine, dt, input, clock + dt) : Becomes(E)

FightSpec == FightInit /\ [][FightTick]_vars

(***************************************************************************)
(* updateAI on its own: three seconds into a match, the decision steps of  *)
(* an opponent that is alive or dead, unhurt or hurt, unarmed or armed,    *)
(* 200 or 400 pixels from the controlled combatant, and of the controlled  *)
(* combatant itself.                                                       *)
(***************************************************************************)
AIInit ==
    /\ clock = StartTime + 300
    /\ frames = 0
    /\ commands = 0
    /\ \E E \in {CHOOSE F \in Fresh(StartTime, FALSE) : Len(F.npcs) = 1} :
       \E x \in {E.player.position.x + 200, E.player.position.x + 400},
          nh \in {0, 30 * HP, 100 * HP}, w \in {NoWeapon, "SMG"}, pw \in {NoWeapon, "SMG"} :
            /\ tiles = E.tiles /\ wallHealth = E.wallHealth
            /\ player = [E.player EXCEPT !.weapon = pw,
                                         !.currentAmmo = IF pw = NoWeapon THEN 0 ELSE WEAPONS[pw].magSize,
                                         !.maxAmmo = IF pw = NoWeapon THEN 0 ELSE WEAPONS[pw].magSize]
            /\ npcs = [E.npcs EXCEPT ![1].position.x = x,
                                     ![1].health = nh,
                                     ![1].isDead = (nh = 0),
                                     ![1].deaths = IF nh = 0 THEN 1 ELSE 0,
                                     ![1].lastDamageTime = IF nh < 100 * HP THEN StartTime + 10 ELSE 0,
                                     ![1].weapon = w,
                                     ![1].currentAmmo = IF w = NoWeapon THEN 0 ELSE WEAPONS[w].magSize,
                                     ![1].maxAmmo = IF w = NoWeapon THEN 0 ELSE WEAPONS[w].magSize,
                                     ![1].weaponPickupTime = IF w = NoWeapon THEN 0 ELSE StartTime]
            /\ bullets = E.bullets /\ explosions = E.explosions
            /\ loot = E.loot /\ potions = E.potions
            /\ swiftHalo = E.swiftHalo /\ particles = E.particles
            /\ gameStartTime = E.gameStartTime /\ gameEndTime = E.gameEndTime
            /\ winners = E.winners /\ kills = E.kills /\ events = E.events

\* One call of updateAI, dt after the last.
AICall(dt) ==
    /\ commands < MaxUnitCalls
    /\ commands' = commands + 1
    /\ clock' = clock + dt
    /\ UNCHANGED frames

\* npc.updateAI(dt, ...) for this.npcs[0], logged as an "ai" event with the
\* number of bullets returned.
AIStep ==
    \E dt \in DTs, rnd \in BOOLEAN :
        /\ rnd \in RandomReplan(npcs[1], dt)
        /\ AICall(dt)
        /\ Becomes(Log([Engine EXCEPT
                            !.npcs[1] = updateAI(Engine, 1, dt, clock + dt, rnd)[1],
                            !.bullets = bullets \o updateAI(Engine, 1, dt, clock + dt, rnd)[2]],
                       Event("ai", 1, 0, Len(updateAI(Engine, 1, dt, clock + dt, rnd)[2]), FALSE)))

\* this.player.updateAI(dt, ...): the same call on the controlled combatant.
AIPlayerStep ==
    \E dt \in DTs :
        /\ AICall(dt)
        /\ Becomes(Log([Engine EXCEPT
                            !.player = updateAI([Engine EXCEPT !.npcs = <<player>>],
                                                1, dt, clock + dt, FALSE)[1],
                            !.bullets = bullets \o updateAI([Engine EXCEPT !.npcs = <<player>>],
                                                            1, dt, clock + dt, FALSE)[2]],
                       Event("ai", 0, 0,
                             Len(updateAI([Engine EXCEPT !.npcs = <<player>>],
                                          1, dt, clock + dt, FALSE)[2]), FALSE)))

AINext == AIStep \/ AIPlayerStep
AISpec == AIInit /\ [][AINext]_vars

(***************************************************************************)
(* Player.update on its own, with its movement step in whole pixels: a     *)
(* combatant on the centre line of the spawn row, walking and dashing      *)
(* along the row.                                                          *)
(***************************************************************************)
\* Player.update, "Slide Logic": the velocity after a collision with the
\* normal n (in thousandths).
slide(v, n) ==
    IF v.x * n.x + v.y * n.y < 0
    THEN Vec(v.x - (n.x * ((v.x * n.x + v.y * n.y) \div 1000)) \div 1000,
             v.y - (n.y * ((v.x * n.x + v.y * n.y) \div 1000)) \div 1000)
    ELSE v

\* Player.update, "Clamp to world bounds".
clamp(pos) ==
    Vec(Max(PlayerRadius, Min(pos.x, width * TILE_SIZE - PlayerRadius)),
        Max(PlayerRadius, Min(pos.y, height * TILE_SIZE - PlayerRadius)))

\* Player.update, "Collision Check (World)": the combatant after the result
\* `collision` of checkCollision at the place `next`.
resolve(p, next, collision) ==
    IF collision.collided
    THEN [p EXCEPT !.position = clamp(Vec(next.x + collision.push.x, next.y + collision.push.y)),
                   !.velocity = slide(p.velocity, collision.normal)]
    ELSE [p EXCEPT !.position = clamp(next)]

\* Player.update, "Apply Velocity" to the end; dt is in centiseconds.
applyVelocity(p, dt, t) ==
    resolve(p,
            Vec(p.position.x + (p.velocity.x * dt) \div 100,
                p.position.y + (p.velocity.y * dt) \div 100),
            checkCollision(t, Vec(p.position.x + (p.velocity.x * dt) \div 100,
                                  p.position.y + (p.velocity.y * dt) \div 100),
                           PlayerRadius))

\* Player.update(dt, world, input, camera) with that movement step.
updateStep(p, dt, t, input) == IF p.isDead THEN p ELSE applyVelocity(steer(p, dt, input), dt, t)

\* The calls of update of one run, its timesteps, and the places the
\* combatant starts from: on the centre line of the spawn row, on a tile
\* that is not solid and in contact with no solid tile.
MaxMoveSteps == 3

MoveInit ==
    /\ clock = StartTime
    /\ frames = 0
    /\ commands = 0
    /\ \E E \in {CHOOSE F \in Fresh(StartTime, FALSE) : Len(F.npcs) = 1} :
       \E x \in {60, 70, 100, 220} :
            /\ Contacts(E.tiles, Vec(x, E.player.position.y), PlayerRadius) = {}
            /\ ~IsSolid(getTile(E.tiles, Floor(x, TILE_SIZE), SpawnTile))
            /\ tiles = E.tiles /\ wallHealth = E.wallHealth
            /\ player = [E.player EXCEPT !.position.x = x]
            /\ npcs = E.npcs
            /\ bullets = E.bullets /\ explosions = E.explosions
            /\ loot = E.loot /\ potions = E.potions
            /\ swiftHalo = E.swiftHalo /\ particles = E.particles
            /\ gameStartTime = E.gameStartTime /\ gameEndTime = E.gameEndTime
            /\ winners = E.winners /\ kills = E.kills /\ events = E.events

\* this.player.update(dt, this.world, this.input, this.camera)
MoveUpdate ==
    \E dt \in {2, 3, 10},
       input \in {Frame({}, FALSE, 0, NoTouch), Frame({"KeyD"}, FALSE, 0, NoTouch),
                  Frame({"KeyA"}, FALSE, 180, NoTouch)} :
        /\ frames < MaxMoveSteps
        /\ frames' = frames + 1
        /\ clock' = clock + dt
        /\ player' = updateStep(player, dt, tiles, input)
        /\ events' = <<>>
        /\ UNCHANGED <<tiles, wallHealth, npcs, bullets, explosions, loot, potions, swiftHalo,
                       particles, gameStartTime, gameEndTime, commands, winners, kills>>

MoveNext == MoveUpdate \/ TriggerDash
MoveSpec == MoveInit /\ [][MoveNext]_vars

(***************************************************************************)
(* World.findPath and Player.moveTo on their own: an autonomous combatant  *)
(* on a generated map, path queries from its place, and calls of moveTo.   *)
(***************************************************************************)
\* The calls of one run.
MaxPathCalls == 2
\* The tiles of the destinations of a combatant on tile `from`: on its row
\* or column, one of them on the map border.
PathEnds(from) ==
    {<<SpawnTile, SpawnTile>>, <<SpawnTile + 1, SpawnTile>>, <<centerX, SpawnTile>>,
     <<0, SpawnTile>>, <<2, SpawnTile>>, <<from[1], centerY>>, <<from[1], 2>>}

\* The combatant stands on a tile that is not solid of one of four maps; in
\* the map of seed 18 the floor tile <<centerX, SpawnTile>> has solid tiles
\* on its four sides.
PathInit ==
    /\ \E seed \in {s \in Seeds : s \in {0, 1, 2, 18}},
          start \in {<<SpawnTile, SpawnTile>>, <<centerX, SpawnTile>>} :
        /\ tiles = generateKowloonMap(seed)
        /\ ~IsSolid(tiles[start[1]][start[2]])
        /\ npcs = <<NewPlayer(1, TileCenter(start).x, TileCenter(start).y, TRUE)>>
    /\ wallHealth = InitialWallHealth
    /\ player = NewPlayer(0, TileCenter(<<SpawnTile, SpawnTile>>).x,
                          TileCenter(<<SpawnTile, SpawnTile>>).y, FALSE)
    /\ bullets = <<>> /\ explosions = <<>> /\ loot = <<>> /\ potions = <<>>
    /\ swiftHalo = spawnSwiftHalo /\ particles = <<>>
    /\ gameStartTime = StartTime /\ gameEndTime = NoTime /\ clock = StartTime
    /\ frames = 0 /\ commands = 0
    /\ winners = <<>> /\ kills = 0 /\ events = <<>>

PathCall ==
    /\ commands < MaxPathCalls
    /\ commands' = commands + 1
    /\ UNCHANGED <<tiles, wallHealth, player, bullets, explosions, loot, potions, swiftHalo,
                   particles, gameStartTime, gameEndTime, frames, winners, kills>>

\* this.path = world.findPath(this.position, target), logged as a "path"
\* event with the end tile (who, by), the length of the result and whether
\* there is one.
PathFind ==
    \E end \in PathEnds(TileOf(npcs[1].position)) :
        LET found == findPath(tiles, npcs[1].position, TileCenter(end))
        IN  /\ PathCall
            /\ clock' = clock
            /\ npcs' = [npcs EXCEPT ![1].path = found.path]
            /\ events' = <<Event("path", end[1], end[2], Len(found.path), found.found)>>

\* moveTo(dt, target, world), logged as a "moveTo" event with the tile of the
\* target (who, by), dt, and whether the call re-planned and findPath
\* returned null.
PathMoveTo ==
    \E end \in PathEnds(TileOf(npcs[1].position)), dt \in {10, 100} : \E rnd \in RandomReplan(npcs[1], dt) :
        /\ PathCall
        /\ clock' = clock + dt
        /\ npcs' = [npcs EXCEPT ![1] = moveTo(npcs[1], dt, TileCenter(end), tiles, rnd)]
        /\ events' = <<Event("moveTo", end[1], end[2], dt,
                             /\ npcs[1].pathTimer - dt <= 0 \/ (Len(npcs[1].path) = 0 /\ rnd)
                             /\ ~findPath(tiles, npcs[1].position, TileCenter(end)).found)>>

PathNext == PathFind \/ PathMoveTo
PathSpec == PathInit /\ [][PathNext]_vars

(***************************************************************************)
(* The World on its own: built by its constructor, then hit by wall-damage *)
(* events, then replaced by a new World.                                   *)
(***************************************************************************)
\* The tiles the wall-damage events of WorldSpec aim at; one lies outside
\* the map.
DamageTiles == {<<3, 5>>, <<4, 3>>, <<5, 0>>, <<7, 5>>, <<-1, 5>>}
\* Their amounts: a bullet's damage and an explosion's wall damage.
DamageAmounts == {50 * HP, 80 * HP}

\* The World of an engine that holds nothing else yet.
WorldInit ==
    /\ \E seed \in Seeds :
        /\ tiles = generateKowloonMap(seed)
        /\ wallHealth = InitialWallHealth
    /\ player = NewPlayer(0, TileCenter(<<SpawnTile, SpawnTile>>).x,
                          TileCenter(<<SpawnTile, SpawnTile>>).y, FALSE)
    /\ npcs = <<>> /\ bullets = <<>> /\ explosions = <<>> /\ loot = <<>> /\ potions = <<>>
    /\ swiftHalo = spawnSwiftHalo /\ particles = <<>>
    /\ gameStartTime = StartTime /\ gameEndTime = NoTime /\ clock = StartTime /\ frames = 0 /\ commands = 0
    /\ winners = <<>> /\ kills = 0 /\ events = <<>>

\* damageWall(x, y, amount), logged as a "wall" event on tile (who, by) with
\* the amount n.
WorldDamageWall ==
    \E p \in DamageTiles, amount \in DamageAmounts :
        LET w == damageWall(tiles, wallHealth, p[1], p[2], amount)
        IN  /\ tiles' = w[1]
            /\ wallHealth' = w[2]
            /\ events' = <<Event("wall", p[1], p[2], amount, FALSE)>>
            /\ UNCHANGED <<player, npcs, bullets, explosions, loot, potions, swiftHalo,
                           particles, gameStartTime, gameEndTime, clock, frames, commands,
                           winners, kills>>

WorldNext == WorldDamageWall

WorldSpec == WorldInit /\ [][WorldNext]_vars

(***************************************************************************)
(* Claims                                                                  *)
(***************************************************************************)
\* The tiles reachable from the centre tile through orthogonally adjacent
\* tiles that are not solid.
RECURSIVE ReachFrom(_, _, _)
ReachFrom(t, seen, frontier) ==
    LET next == {p \in {<<q[1] + d[1], q[2] + d[2]>> : q \in frontier, d \in Orthogonal} :
                    /\ p[1] >= 0 /\ p[1] < width /\ p[2] >= 0 /\ p[2] < height
                    /\ p \notin seen
                    /\ t[p[1]][p[2]] \in {FLOOR, CITY_HOUSE_FLOOR}}
    IN  IF next = {} THEN seen ELSE ReachFrom(t, seen \cup next, next)

FreshlyGenerated == \A x \in 0 .. (width - 1), y \in 0 .. (height - 1) : wallHealth[x][y] = 100 * HP

\* C1: in every map produced by World generation, every Floor or
\* SpecialFloor tile is reachable from the centre tile by orthogonal moves
\* over Floor/SpecialFloor tiles.
C1_Connectivity ==
    FreshlyGenerated =>
        LET reach == ReachFrom(tiles, {<<centerX, centerY>>}, {<<centerX, centerY>>})
        IN  \A x \in 0 .. (width - 1), y \in 0 .. (height - 1) :
                tiles[x][y] \in {FLOOR, CITY_HOUSE_FLOOR} => <<x, y>> \in reach



\* The combatants the engine holds: this.player and this.npcs.
Combatants == {player} \cup {npcs[i] : i \in DOMAIN npcs}

\* The events of the last step of the given types.
EventsOf(types) == {i \in DOMAIN events : events[i].type \in types}

\* C2: within one match (from construction or reset until the next reset)
\* the match-outcome callback onWinner is invoked at most once.
C2_OneOutcome == Len(winners) <= 1

\* C3: damageEntity on a combatant with shield s and health h, for damage d:
\* if d <= s the health stays h and the shield becomes s - d; if d > s the
\* shield becomes 0 and the health h - (d - s).
C3_ShieldThenHealth ==
    [][(events' # <<>> /\ events'[1].type = "damage") =>
          LET e == events'[1]
              before == IF e.who = 0 THEN player ELSE npcs[e.who]
              after == IF e.who = 0 THEN player' ELSE npcs'[e.who]
              d == e.n
              s == before.shield
              h == before.health
          IN  IF d <= s THEN after.health = h /\ after.shield = s - d
              ELSE after.shield = 0 /\ after.health = h - (d - s)]_vars

\* A hit of 30 that a shield of 10 took 10 of: the health went from 80 to 60.
C3_Witness ==
    /\ events # <<>> /\ events[1].type = "damage"
    /\ events[1].who = 0 /\ events[1].n = 30 * HP
    /\ player.shield = 0 /\ player.health = 60 * HP

\* C4: damage to a combatant that is already dead never runs the death
\* branch again: every death of a step is the combatant's first, and the
\* defeat outcome is emitted at most once.
C4_DeadStaysDead ==
    /\ \A i \in EventsOf({"death"}) : events[i].n = 1
    /\ Cardinality({i \in DOMAIN winners : winners[i] = "GAME OVER"}) <= 1

\* A combatant died in this tick and was hit again later in the tick.
C4_Witness ==
    \E i \in EventsOf({"death"}), j \in EventsOf({"hit", "blast"}) :
        i < j /\ events[j].who = events[i].who /\ events[j].flag

\* C5: an explosion's area damage is applied on exactly one tick, that of
\* its first update.
C5_BlastOnce ==
    \A i \in EventsOf({"explosion"}) : events[i].flag <=> events[i].n = 1

\* C6: in any tick, one loot item gives its weapon to at most one combatant.
C6_OneTaker ==
    \A i, j \in EventsOf({"pickup"}) : events[i].by = events[j].by => i = j

\* C7: shoot() on an armed combatant that is not reloading and has no ammo
\* spawns no bullet and leaves the combatant reloading.
C7_EmptyMagazineReloads ==
    [][(/\ events' # <<>> /\ events'[1].type = "shoot"
        /\ player.weapon # NoWeapon /\ ~player.isReloading /\ player.currentAmmo = 0)
       => (bullets' = bullets /\ player'.isReloading)]_vars

C9_HealthRange == \A c \in Combatants : 0 <= c.health /\ c.health <= maxHealth

\* C10: a siphon takes the controlled combatant from health h and shield s
\* to health min(maxHealth, h + 30) and shield
\* min(maxShield, s + max(0, h + 30 - maxHealth)); from 80 and 0 to 100 and 10.
C10_Siphon ==
    [][(\E i \in DOMAIN npcs : i \in DOMAIN npcs' /\ npcs'[i].siphoned /\ ~npcs[i].siphoned) =>
          LET h == player.health
              s == player.shield
          IN  /\ player'.health = Min(maxHealth, h + 30 * HP)
              /\ player'.shield = Min(maxShield, s + Max(0, h + 30 * HP - maxHealth))
              /\ (h = 80 * HP /\ s = 0) =>
                    (player'.health = 100 * HP /\ player'.shield = 10 * HP)]_vars

\* The siphon of the example has happened.
C10_Witness ==
    /\ \E i \in DOMAIN npcs : npcs[i].siphoned
    /\ events # <<>> /\ events[1].type = "damage" /\ events[1].who # 0
    /\ player.health = 100 * HP /\ player.shield = 10 * HP

\* C11: the kill siphon and the kill notification happen at most once per
\* autonomous combatant, only for a death dealt by the controlled combatant
\* while it is alive; a death dealt by anyone else gives neither.
C11_SiphonOnlyForOwnKills ==
    /\ \A i \in EventsOf({"kill"}) :
          /\ events[i].who > 0 /\ events[i].by = player.id /\ ~events[i].flag
          /\ \E j \in EventsOf({"death"}) :
                j < i /\ events[j].who = events[i].who /\ events[j].by = player.id
          /\ \A j \in EventsOf({"kill"}) : events[j].who = events[i].who => i = j
    /\ \A j \in EventsOf({"death"}) :
          events[j].by # player.id =>
             \A i \in EventsOf({"kill"}) : events[i].who # events[j].who

\* The controlled combatant's rocket killed an autonomous combatant, which
\* gave the siphon, and the rocket's blast struck the dead combatant in the
\* same tick.
C11_Witness ==
    \E i \in EventsOf({"kill"}), j \in EventsOf({"blast"}) :
        /\ i < j /\ events[j].who = events[i].who
        /\ events[j].by = player.id /\ events[j].flag

\* C12: a combatant marked dead takes no weapon from a loot item, no potion
\* and not the special item, in the tick of its death or later.
C12_DeadTakesNothing ==
    \A i \in EventsOf({"pickup", "potion", "halo"}) : ~events[i].flag

\* The places around tile (x, y) closer to it than a combatant's radius.
Around(x, y) ==
    {Vec(px, py) : px \in {x * TILE_SIZE - 10, x * TILE_SIZE + 20, x * TILE_SIZE + TILE_SIZE + 10},
                   py \in {y * TILE_SIZE - 10, y * TILE_SIZE + 20, y * TILE_SIZE + TILE_SIZE + 10}}

\* C13: damageWall(x, y, amount) changes nothing unless the tile is a
\* destructible Wall; for a Wall it subtracts the amount from the durability
\* and the tile becomes Floor exactly when the durability is used up; a tile
\* that became Floor causes no contact in checkCollision.
C13_DamageWall ==
    [][(events' # <<>> /\ events'[1].type = "wall") =>
          LET x == events'[1].who
              y == events'[1].by
              d == events'[1].n
          IN  IF x < 0 \/ x >= width \/ y < 0 \/ y >= height
              THEN tiles' = tiles /\ wallHealth' = wallHealth
              ELSE IF tiles[x][y] # WALL
              THEN tiles' = tiles /\ wallHealth' = wallHealth
              ELSE /\ wallHealth' = [wallHealth EXCEPT ![x][y] = wallHealth[x][y] - d]
                   /\ tiles' = [tiles EXCEPT ![x][y] =
                                    IF wallHealth[x][y] - d <= 0 THEN FLOOR ELSE WALL]
                   /\ tiles'[x][y] = FLOOR =>
                         \A pos \in Around(x, y) : <<x, y>> \notin Contacts(tiles', pos, PlayerRadius)
                   /\ tiles'[x][y] = WALL =>
                         <<x, y>> \in Contacts(tiles', TileCenter(<<x, y>>), PlayerRadius)]_vars

\* Hits of 50 and 50 used up the durability of 100 of a wall, which is floor
\* now.
C13_Witness ==
    /\ events # <<>> /\ events[1].type = "wall"
    /\ events[1].who >= 0
    /\ tiles[events[1].who][events[1].by] = FLOOR
    /\ wallHealth[events[1].who][events[1].by] = 0

\* C14: every tile on the map border is IndestructibleWall, after generation
\* and after any wall-damage events.
C14_BorderStands ==
    \A x \in 0 .. (width - 1), y \in 0 .. (height - 1) :
        IsBorder(x, y) => tiles[x][y] = INDESTRUCTIBLE_WALL

\* A wall-damage event has struck a border tile, and wall-damage events have
\* used up the durability of a wall.
C14_Witness ==
    /\ events # <<>> /\ events[1].type = "wall"
    /\ events[1].who >= 0 /\ IsBorder(events[1].who, events[1].by)
    /\ \E x \in 0 .. (width - 1), y \in 0 .. (height - 1) : wallHealth[x][y] <= 0

\* The overlap of a combatant's circle with a solid tile that counts as
\* negligible, in pixels.
Eps == 1

\* C15: after the movement step of Player.update the combatant's circle of
\* radius 20 overlaps no Wall or IndestructibleWall tile by more than a
\* negligible epsilon.
C15_NoOverlap == Contacts(tiles, player.position, PlayerRadius - Eps) = {}

\* The last step was a path query from the combatant's tile to another tile.
PathQueried ==
    /\ events # <<>> /\ events[1].type = "path"
    /\ TileOf(npcs[1].position) # <<events[1].who, events[1].by>>

Adjacent(a, b) == (a[1] - b[1]) * (a[1] - b[1]) + (a[2] - b[2]) * (a[2] - b[2]) = 1

\* The waypoints are centres of tiles, each orthogonally adjacent to the
\* one before it, and the last is the centre of tile `end`.
Chain(path, end) ==
    /\ Len(path) > 0
    /\ \A i \in 1 .. Len(path) : path[i] = TileCenter(TileOf(path[i]))
    /\ \A i \in 1 .. (Len(path) - 1) : Adjacent(TileOf(path[i]), TileOf(path[i + 1]))
    /\ path[Len(path)] = TileCenter(end)

\* C16: a path that findPath returns for start and end in different tiles
\* starts at the centre of a tile orthogonally adjacent to the start tile,
\* ends at the centre of the end tile, steps between orthogonally adjacent
\* tiles and has no waypoint on a solid tile.
C16_NextStepToGoal ==
    (PathQueried /\ events[1].flag) =>
        /\ Chain(npcs[1].path, <<events[1].who, events[1].by>>)
        /\ Adjacent(TileOf(npcs[1].path[1]), TileOf(npcs[1].position))
        /\ \A i \in 1 .. Len(npcs[1].path) :
              ~IsSolid(getTile(tiles, TileOf(npcs[1].path[i])[1], TileOf(npcs[1].path[i])[2]))

\* The least number of orthogonal moves from the tiles `frontier` (d moves
\* from the start) to the tile `goal` over tiles that are not solid, -1 if
\* there is no route.
RECURSIVE Hops(_, _, _, _, _)
Hops(t, seen, frontier, goal, d) ==
    LET next == {p \in {<<q[1] + o[1], q[2] + o[2]>> : q \in frontier, o \in Orthogonal} :
                    /\ p[1] >= 0 /\ p[1] < width /\ p[2] >= 0 /\ p[2] < height
                    /\ p \notin seen
                    /\ ~IsSolid(t[p[1]][p[2]])}
    IN  IF goal \in frontier THEN d
        ELSE IF next = {} THEN -1
        ELSE Hops(t, seen \cup next, next, goal, d + 1)

\* The moves of a combatant on tile `from` that follows the path.
Moves(path, from) == (Len(path) - 1) + (IF TileOf(path[1]) = from THEN 0 ELSE 1)

\* C17: for start and end in different tiles findPath returns a path if and
\* only if the end tile can be reached over tiles that are not solid, and
\* the path has the least possible number of moves.
C17_ShortestOrNone ==
    PathQueried =>
        LET from == TileOf(npcs[1].position)
            end == <<events[1].who, events[1].by>>
            least == Hops(tiles, {from}, {from}, end, 0)
        IN  /\ events[1].flag <=> least >= 0
            /\ events[1].flag =>
                  /\ Chain(npcs[1].path, end)
                  /\ TileOf(npcs[1].path[1]) = from \/ Adjacent(TileOf(npcs[1].path[1]), from)
                  /\ Moves(npcs[1].path, from) = least

\* findPath has returned a path of six moves or more around a wall.
C17_Witness ==
    /\ PathQueried /\ events[1].flag
    /\ Moves(npcs[1].path, TileOf(npcs[1].position)) >= 6
    /\ \E i \in 1 .. Len(npcs[1].path) :
          /\ npcs[1].path[i].x # npcs[1].position.x
          /\ npcs[1].path[i].y # npcs[1].position.y

\* C18: a moveTo whose re-plan gets no path from findPath sets the velocity
\* to chase speed along the straight line to the destination.
C18_FallsBackToDirect ==
    (events # <<>> /\ events[1].type = "moveTo" /\ events[1].flag) =>
        LET target == TileCenter(<<events[1].who, events[1].by>>)
            rotation == Atan2(target.y - npcs[1].position.y, target.x - npcs[1].position.x)
        IN  /\ npcs[1].rotation = rotation
            /\ npcs[1].velocity = Vec(Cos(rotation) * 300, Sin(rotation) * 300)

\* The last call of a step, if the step logged one.
Called(type) == events' # <<>> /\ events'[1].type = type

\* C19: shoot() while reloading or unarmed, reload() while reloading, unarmed
\* or with a full magazine, and dash() while dashing or before the cooldown
\* has elapsed change nothing and spawn nothing; such a dash() returns false.
C19_InvalidCallsChangeNothing ==
    [][/\ (Called("shoot") /\ (player.isReloading \/ player.weapon = NoWeapon)) =>
             (player' = player /\ bullets' = bullets)
       /\ (Called("reload") /\ (\/ player.isReloading \/ player.weapon = NoWeapon
                                \/ player.currentAmmo = player.maxAmmo)) =>
             (player' = player /\ bullets' = bullets)
       /\ (Called("dash") /\ (player.isDashing \/ clock - player.lastDashTime < dashCooldown)) =>
             (~events'[1].flag /\ player' = player /\ particles' = particles)]_vars

\* A reload has started and a call of shoot() has found the combatant
\* reloading with a full magazine; it holds no bullet.
C19_Witness ==
    /\ events # <<>> /\ events[1].type = "shoot"
    /\ player.isReloading /\ player.currentAmmo = player.maxAmmo /\ player.weapon # NoWeapon
    /\ bullets = <<>>

\* The step is a frame of the loop, and the events its tick logged.
IsFrame == frames' = frames + 1
Logged(type) == {i \in DOMAIN events' : events'[i].type = type}

\* C20: a tick emits victory exactly when, at its end, after the dead
\* autonomous combatants are pruned, none remains and the controlled combatant
\* is alive; the tick in which the last of them dies while the controlled
\* combatant lives emits the first victory of the match.
C20_VictoryIffCleared ==
    [][IsFrame =>
         /\ (Logged("victory") # {}) <=> (Len(npcs') = 0 /\ ~player'.isDead)
         /\ \A i \in DOMAIN npcs' : ~npcs'[i].isDead
         /\ (/\ Len(npcs) > 0 /\ Len(npcs') = 0 /\ ~player'.isDead) =>
                (/\ gameEndTime = NoTime /\ gameEndTime' = clock'
                 /\ \E i \in Logged("victory") : events'[i].flag /\ events'[i].n = 0)]_vars

\* The last autonomous combatant has died in this tick and the tick has
\* emitted the first victory.
C20_Witness ==
    /\ \E i \in DOMAIN events : events[i].type = "death" /\ events[i].who > 0
    /\ \E i \in DOMAIN events : events[i].type = "victory" /\ events[i].flag
    /\ npcs = <<>> /\ ~player.isDead /\ winners = <<"Player">>

\* The match is over: the controlled combatant is dead or no autonomous
\* combatant remains.
MatchOver == player.isDead \/ Len(npcs) = 0

\* C21: a restart intent (the R key at the start of a tick, triggerRestart)
\* resets exactly when the match is over; otherwise the stopwatch keeps its
\* start, no combatant or item is added, no wall is restored, and
\* triggerRestart changes nothing at all.
C21_RestartOnlyWhenOver ==
    [][\A i \in Logged("restart") :
          /\ events'[i].flag <=> MatchOver
          /\ ~MatchOver =>
                /\ gameStartTime' = gameStartTime
                /\ Len(npcs') <= Len(npcs) /\ Len(loot') <= Len(loot)
                /\ Len(potions') <= Len(potions)
                /\ \A x \in DOMAIN wallHealth : \A y \in DOMAIN wallHealth[x] :
                      wallHealth'[x][y] <= wallHealth[x][y]
                /\ ~IsFrame => UNCHANGED <<tiles, wallHealth, player, npcs, bullets, explosions,
                                           loot, potions, swiftHalo, particles,
                                           gameEndTime>>]_vars

\* The R key was down in a tick of a running match that had lost an item:
\* the tick went on and restored nothing.
C21_Witness ==
    /\ frames > 1 /\ clock > gameStartTime
    /\ \E i \in DOMAIN events : events[i].type = "restart" /\ ~events[i].flag
    /\ ~player.isDead /\ Len(npcs) > 0 /\ player.weapon # NoWeapon

\* The step that led to this state was a reset.
JustReset == events # <<>> /\ events[1].type = "restart" /\ events[1].flag

\* C22: after a reset the controlled combatant is alive, at full health with
\* no shield, unarmed, on the safe-spawn tile; bullets, explosions and
\* particles are empty; the end time is cleared; and there are at most as
\* many items and opponents as one construction spawns (MaxLoot loot items,
\* MaxPotions potions, MaxNPCs autonomous combatants, one halo).
C22_ResetLikeConstruction ==
    JustReset =>
        /\ ~player.isDead /\ player.health = maxHealth /\ player.shield = 0
        /\ player.weapon = NoWeapon /\ player.currentAmmo = 0 /\ player.maxAmmo = 0
        /\ player.position = TileCenter(<<SpawnTile, SpawnTile>>)
        /\ bullets = <<>> /\ explosions = <<>> /\ particles = <<>>
        /\ gameEndTime = NoTime
        /\ Len(loot) <= MaxLoot /\ Len(potions) <= MaxPotions /\ Len(npcs) <= MaxNPCs
        /\ swiftHalo.active

\* The tick of the step ran to its end: a frame of a living controlled
\* combatant that did not reset.
Played == IsFrame /\ ~player.isDead /\ \A i \in Logged("restart") : ~events'[i].flag

\* The health the autonomous combatant with identity id had before the step
\* (none: -1).
HealthBefore(id) ==
    IF \E k \in DOMAIN npcs : npcs[k].id = id
    THEN npcs[CHOOSE k \in DOMAIN npcs : npcs[k].id = id].health ELSE -1

\* C23: regeneration happens exactly at the end of the ticks in which more
\* than 5 seconds have passed since the controlled combatant was last
\* damaged; it adds 2 health per second of timestep to the health of that
\* combatant, capped at maxHealth, and never to a dead one; the health of an
\* autonomous combatant rises only by a potion, and the health of the
\* controlled combatant only by a potion, a siphon or regeneration.
C23_Regeneration ==
    [][IsFrame =>
         /\ (Logged("regen") # {}) <=> (Played /\ clock' - player'.lastDamageTime > 500)
         /\ \A i \in Logged("regen") :
               /\ ~events'[i].flag /\ ~player'.isDead
               /\ i = Len(events')
               /\ events'[i].by = clock' - clock
               /\ player'.health = Min(maxHealth, events'[i].n + (2 * HP * events'[i].by) \div 100)
               /\ player'.health <= maxHealth
         /\ player'.health > player.health =>
               \/ Logged("regen") # {}
               \/ \E i \in Logged("restart") : events'[i].flag
               \/ \E i \in DOMAIN events' :
                     events'[i].type \in {"potion", "kill"} /\ (events'[i].type = "potion" => events'[i].who = 0)
         /\ \A k \in DOMAIN npcs' :
               (HealthBefore(npcs'[k].id) >= 0 /\ npcs'[k].health > HealthBefore(npcs'[k].id)) =>
                    \/ \E i \in Logged("potion") : events'[i].who = npcs'[k].id
                    \/ \E i \in Logged("restart") : events'[i].flag]_vars

\* A tick has regenerated a wounded controlled combatant while a wounded
\* autonomous combatant stood by.
C23_Witness ==
    /\ events # <<>> /\ events[Len(events)].type = "regen"
    /\ events[Len(events)].n < player.health /\ player.health < maxHealth
    /\ \E k \in DOMAIN npcs : npcs[k].health < 100 * HP /\ ~npcs[k].isDead

\* The tile coordinates up to two tiles around the map that lie outside it.
Outside ==
    {n \in (-2 .. width + 1) \X (-2 .. height + 1) :
        n[1] < 0 \/ n[1] >= width \/ n[2] < 0 \/ n[2] >= height}

\* The centres of circles of the combatants' radius that reach over the four
\* edges of the map, each with the outside tile it touches.
OverEdge ==
    {<<Vec(TILE_SIZE \div 4, TileCenter(<<0, SpawnTile>>).y), <<-1, SpawnTile>>>>,
     <<Vec(width * TILE_SIZE - TILE_SIZE \div 4, TileCenter(<<0, SpawnTile>>).y), <<width, SpawnTile>>>>,
     <<Vec(TileCenter(<<SpawnTile, 0>>).x, TILE_SIZE \div 4), <<SpawnTile, -1>>>>,
     <<Vec(TileCenter(<<SpawnTile, 0>>).x, height * TILE_SIZE - TILE_SIZE \div 4), <<SpawnTile, height>>>>,
     <<Vec(-TILE_SIZE \div 2, TileCenter(<<0, SpawnTile>>).y), <<-1, SpawnTile>>>>}

\* C24: getTile answers WALL for every coordinate outside the map, so
\* checkCollision counts the tiles outside the map as solid, and damageWall
\* on a coordinate outside the map changes nothing.
C24_OutsideIsWall ==
    /\ [](/\ \A n \in Outside : getTile(tiles, n[1], n[2]) = WALL
          /\ \A c \in OverEdge :
                /\ c[2] \in Contacts(tiles, c[1], PlayerRadius)
                /\ checkCollision(tiles, c[1], PlayerRadius).collided)
    /\ [][\A i \in Logged("wall") :
            <<events'[i].who, events'[i].by>> \in Outside => UNCHANGED <<tiles, wallHealth>>]_vars

\* damageWall was called on a coordinate outside a map that has lost a wall.
C24_Witness ==
    /\ events # <<>> /\ events[1].type = "wall" /\ <<events[1].who, events[1].by>> \in Outside
    /\ \E x \in DOMAIN wallHealth : \E y \in DOMAIN wallHealth[x] :
            wallHealth[x][y] <= 0 /\ tiles[x][y] = FLOOR

\* The events of the step about this.bullets[i - 1] of its tick: its hits on
\* combatants, and its wall hit or the end of its lifetime.
HitsOf(i) == {k \in Logged("hit") : events'[k].n = i}
StopsOf(i) == {k \in Logged("wallhit") \cup Logged("expired") : events'[k].who = i}
Indices == {events'[k].n : k \in Logged("hit")} \cup {events'[k].who : k \in DOMAIN events'}

\* C25: a bullet applies direct-hit damage to at most one combatant, and
\* none in a tick in which it has hit a wall tile or its lifetime has run
\* out; a bullet that has hit anything is gone after the tick.
C25_DestroyedAtFirstHit ==
    [][IsFrame =>
         /\ \A i \in Indices :
               /\ Cardinality(HitsOf(i)) <= 1
               /\ StopsOf(i) # {} => HitsOf(i) = {}
         /\ \A k \in DOMAIN bullets' : bullets'[k].active /\ bullets'[k].lifeTime > 0]_vars

\* The explosions this.bullets[i - 1] has spawned in the tick of the step.
BoomsOf(i) == {k \in Logged("boom") : events'[k].who = i}

\* C26: a rocket destroyed by a wall hit or an entity hit spawns exactly one
\* explosion, also when it touches a wall tile and combatants in one tick;
\* other bullets spawn none.
C26_OneExplosion ==
    [][IsFrame =>
         /\ \A i \in Indices : Cardinality(BoomsOf(i)) <= 1
         /\ Len(explosions') <= Len(explosions) + Cardinality({events'[k].who : k \in Logged("boom")})]_vars

\* C27: no direct hit of a bullet damages the combatant that owns it.
C27_NoSelfHit ==
    [][\A k \in Logged("hit") : events'[k].who # events'[k].by]_vars

\* After a tick, a bullet in flight overlaps the controlled combatant that
\* owns it, and that combatant has never been damaged.
C27_Witness ==
    /\ frames > 0
    /\ \E k \in DOMAIN bullets :
            /\ bullets[k].owner = player.id
            /\ Dist2(bullets[k].position, player.position)
                  < (PlayerRadius + bullets[k].radius) * (PlayerRadius + bullets[k].radius)
    /\ player.health = maxHealth /\ player.lastDamageTime = 0

\* C28: a bullet of the controlled combatant's weapon that hits a
\* destructible WALL tile hands that weapon's wallDamage to damageWall, and
\* in a tick without explosions no wall loses more than that per wall hit.
C28_WallDamagePerHit ==
    [][(IsFrame /\ player.weapon # NoWeapon) =>
         /\ \A k \in Logged("wallhit") :
               (events'[k].flag /\ events'[k].by = player.id) =>
                    events'[k].n = WEAPONS[player.weapon].wallDamage * HP
         /\ (Logged("boom") = {} /\ Logged("explosion") = {}) =>
               \A x \in DOMAIN wallHealth : \A y \in DOMAIN wallHealth[x] :
                    wallHealth'[x][y] >= wallHealth[x][y]
                        - Cardinality(Logged("wallhit")) * WEAPONS[player.weapon].wallDamage * HP]_vars

\* The combatants before and after the step, and the one with identity id.
Before == {player} \cup {npcs[k] : k \in DOMAIN npcs}
After == {player'} \cup {npcs'[k] : k \in DOMAIN npcs'}
Of(S, id) == {c \in S : c.id = id}

\* C29: in a tick, a combatant picks up a loot item only if it is unarmed;
\* it then holds the item's kind with currentAmmo = maxAmmo = the magazine
\* size of that kind, and the item is gone after the tick; an armed combatant
\* picks up nothing and keeps its weapon, and every other item stays.
C29_PickupOnlyUnarmed ==
    [][(IsFrame /\ \A i \in Logged("restart") : ~events'[i].flag) =>
         /\ \A k \in Logged("pickup") :
               /\ \A c \in Of(Before, events'[k].who) : c.weapon = NoWeapon
               /\ \A c \in Of(After, events'[k].who) :
                     /\ c.weapon = loot[events'[k].by].weapon
                     /\ c.currentAmmo = WEAPONS[c.weapon].magSize
                     /\ c.maxAmmo = WEAPONS[c.weapon].magSize
               /\ \A j \in Logged("pickup") : events'[j].who = events'[k].who => j = k
         /\ \A c \in Before : c.weapon # NoWeapon =>
               /\ \A k \in Logged("pickup") : events'[k].who # c.id
               /\ \A d \in Of(After, c.id) : d.weapon = c.weapon /\ d.maxAmmo = c.maxAmmo
         /\ Len(loot') = Len(loot) - Cardinality({events'[k].by : k \in Logged("pickup")})
         /\ \A j \in DOMAIN loot' : loot'[j].active]_vars

\* After a tick, the armed controlled combatant stands on a loot item that
\* is still there, with the weapon it had picked up before.
C29_Witness ==
    /\ frames > 1 /\ player.weapon # NoWeapon /\ ~player.isDead
    /\ \A k \in DOMAIN events : events[k].type # "pickup"
    /\ \E k \in DOMAIN loot :
            /\ Dist2(loot[k].position, player.position)
                  < (PlayerRadius + LootRadius) * (PlayerRadius + LootRadius)
            /\ loot[k].active

\* C30: dash() of the controlled combatant, from the Space key in a tick or
\* from triggerDash, succeeds exactly when the combatant is not dashing and
\* the cooldown has passed since its last successful dash; two successful
\* dashes are at least dashCooldown apart.
C30_DashCooldown ==
    [][/\ \A k \in Logged("dash") :
            /\ events'[k].n = player.lastDashTime
            /\ events'[k].flag <=>
                    (~player.isDashing /\ clock' - player.lastDashTime >= dashCooldown)
            /\ events'[k].flag =>
                    (player'.lastDashTime = clock' /\ clock' - events'[k].n >= dashCooldown)
       /\ player'.lastDashTime # player.lastDashTime =>
            /\ \E k \in Logged("dash") : events'[k].flag
            /\ player'.lastDashTime - player.lastDashTime >= dashCooldown]_vars

\* The controlled combatant has dashed for the second time, by the Space key
\* after triggerDash or the other way round.
C30_Witness ==
    /\ \E k \in DOMAIN events :
            events[k].type = "dash" /\ events[k].flag /\ events[k].n >= StartTime
    /\ player.lastDashTime >= StartTime + dashCooldown /\ commands = 1

\* The place Player.update tries in the step: the position plus velocity
\* times the timestep.
Tried == Vec(player.position.x + (player.velocity.x * (clock' - clock)) \div 100,
             player.position.y + (player.velocity.y * (clock' - clock)) \div 100)

\* C31: a successful dash sets the velocity to 1000 along an axis and the
\* dash timer to the dash duration; while the combatant is dashing an update
\* takes the timestep off the timer; when the timer is still positive the
\* combatant keeps dashing and its velocity stays as it was, whatever the
\* movement keys, unless the step collides, which only removes velocity;
\* when the timer reaches zero the velocity is zero and the dashing flag is
\* cleared; nothing but that update ends a dash.
C31_DashIgnoresInput ==
    [][/\ (\E k \in Logged("dash") : events'[k].flag) =>
            /\ player'.isDashing /\ player'.dashTimer = dashDuration
            /\ player'.velocity.x * player'.velocity.x
                    + player'.velocity.y * player'.velocity.y = 1000 * 1000
       /\ (~IsFrame /\ player.isDashing) => player' = player
       /\ (IsFrame /\ player.isDashing) =>
            /\ player'.dashTimer = player.dashTimer - (clock' - clock)
            /\ player'.isDashing <=> player'.dashTimer > 0
            /\ ~player'.isDashing => player'.velocity = Vec(0, 0)
            /\ player'.isDashing =>
                  \/ player'.velocity = player.velocity
                  \/ /\ checkCollision(tiles, Tried, PlayerRadius).collided
                     /\ player'.velocity.y = 0
                     /\ player'.velocity.x * player.velocity.x >= 0
                     /\ player'.velocity.x * player'.velocity.x
                            < player.velocity.x * player.velocity.x]_vars

\* A dash has ended in the update that brought the time since it began to
\* the dash duration.
C31_Witness ==
    /\ player.lastDashTime >= StartTime /\ clock - player.lastDashTime = dashDuration
    /\ ~player.isDashing /\ player.dashTimer = 0 /\ player.velocity = Vec(0, 0)
    /\ frames >= 2

\* C32: in a tick that finds the controlled combatant reloading, while the
\* timestep leaves the reload timer positive the combatant keeps reloading,
\* does not fire and keeps its ammo; in the tick that brings the timer to
\* zero the reload ends with the magazine full (less the one shot the same
\* tick may fire afterwards).
C32_ReloadHoldsAmmo ==
    [][(IsFrame /\ player.isReloading) =>
         IF player.reloadTimer - (clock' - clock) > 0
         THEN /\ player'.isReloading
              /\ player'.reloadTimer = player.reloadTimer - (clock' - clock)
              /\ player'.lastShotTime = player.lastShotTime
              /\ player'.currentAmmo = player.currentAmmo
         ELSE /\ ~player'.isReloading
              /\ player'.currentAmmo \in {player'.maxAmmo, player'.maxAmmo - 1}]_vars

\* C36: a combatant that is reloading holds a weapon, and the reload under
\* way is one of that weapon: its timer is no longer than the weapon's
\* reload duration and its magazine is not full.
C36_ReloadingIsArmed ==
    \A c \in Combatants :
        c.isReloading =>
            /\ c.weapon # NoWeapon
            /\ c.reloadTimer <= WEAPONS[c.weapon].reloadTime
            /\ c.currentAmmo < c.maxAmmo

\* The squared distance, at its decision step in the tick, from the one
\* autonomous combatant to the controlled combatant, which has moved before.
TargetD2 == Dist2(player'.position, npcs[1].position)

\* The decision step of the one autonomous combatant chooses a potion: it is
\* hurt and an active potion is nearer than the controlled combatant.
SeeksPotion ==
    /\ npcs[1].health < 100 * HP
    /\ \E k \in DOMAIN potions :
            potions[k].active /\ Dist2(potions[k].position, npcs[1].position) < TargetD2

C34_StateFollowsWeapon ==
    [][\A k \in Logged("ai") :
         IF events'[k].who = 0
         THEN player' = player /\ bullets' = bullets /\ npcs' = npcs /\ events'[k].n = 0
         ELSE IF npcs[1].isDead
         THEN npcs' = npcs /\ bullets' = bullets /\ player' = player /\ events'[k].n = 0
         ELSE /\ npcs'[1].weapon = npcs[1].weapon
              /\ npcs'[1].aiState = "SEARCHING" <=> npcs'[1].weapon = NoWeapon
              /\ npcs'[1].aiState = "FIGHTING" <=> npcs'[1].weapon # NoWeapon]_vars

\* A decision step of the living, armed autonomous combatant has left it
\* Fighting and returned a bullet.
C34_Witness ==
    /\ events # <<>> /\ events[1].type = "ai" /\ events[1].who = 1 /\ events[1].n > 0
    /\ ~npcs[1].isDead /\ npcs[1].weapon # NoWeapon /\ npcs[1].aiState = "FIGHTING"

\* The tiles from which connectivity is followed: the centre tile and the
\* safe-spawn tile.
Sources == {<<centerX, centerY>>, <<SpawnTile, SpawnTile>>}

\* C35: a wall-damage event leaves every Floor and SpecialFloor tile and
\* every IndestructibleWall tile as it was, raises no tile's durability, and
\* keeps every tile that was reachable from the centre or the spawn tile
\* through tiles that are not solid reachable.
C35_MapOnlyOpens ==
    [][/\ \A x \in 0 .. (width - 1), y \in 0 .. (height - 1) :
            /\ tiles[x][y] # WALL => tiles'[x][y] = tiles[x][y]
            /\ tiles'[x][y] \in {tiles[x][y], FLOOR}
            /\ wallHealth'[x][y] <= wallHealth[x][y]
       /\ \A a \in Sources :
            ReachFrom(tiles, {a}, {a}) \subseteq ReachFrom(tiles', {a}, {a})]_vars

\* A wall-damage event has opened a Wall tile, which is now reachable from
\* the centre tile.
C35_Witness ==
    /\ events # <<>> /\ events[1].type = "wall"
    /\ events[1].who >= 0
    /\ tiles[events[1].who][events[1].by] = FLOOR
    /\ wallHealth[events[1].who][events[1].by] <= 0
    /\ wallHealth[events[1].who][events[1].by] + events[1].n > 0
    /\ <<events[1].who, events[1].by>>
            \in ReachFrom(tiles, {<<centerX, centerY>>}, {<<centerX, centerY>>})

\* C37: while the controlled combatant is dead, a command between two ticks
\* that does not reset (triggerDash or handleTouchShoot) adds no bullet, starts no dash, leaves
\* the combatant's velocity alone and spawns no particle.
C37_DeadIgnoresCommands ==
    [][(~IsFrame /\ player.isDead /\ \A i \in Logged("restart") : ~events'[i].flag) =>
         /\ bullets' = bullets
         /\ player'.isDashing = player.isDashing
         /\ player'.velocity = player.velocity
         /\ particles' = particles]_vars

\* C38: a tick that starts with the controlled combatant dead and does not
\* reset leaves the map, the combatants, the bullets, explosions, items,
\* particles, the outcome and the recorded end time as they were.
C38_DeadTickFreezes ==
    [][(IsFrame /\ player.isDead /\ \A i \in Logged("restart") : ~events'[i].flag) =>
         UNCHANGED <<tiles, wallHealth, player, npcs, bullets, explosions, loot, potions,
                     swiftHalo, particles, winners, gameStartTime, gameEndTime>>]_vars

\* A tick has passed over a dead controlled combatant while an autonomous
\* combatant was alive and armed: the step logged nothing, and the clock has
\* run on past the recorded end.
C38_Witness ==
    /\ player.isDead /\ frames > 1 /\ events = <<>>
    /\ gameEndTime # NoTime /\ clock > gameEndTime
    /\ \E k \in DOMAIN npcs : ~npcs[k].isDead /\ npcs[k].weapon # NoWeapon

\* The engine after the step.
EngineAfter == [Engine EXCEPT !.gameStartTime = gameStartTime', !.gameEndTime = gameEndTime']

\* C39: the end time is written by the first victory or defeat of a match,
\* at the clock of that tick, and no step but a reset changes it afterwards:
\* the elapsed time of getUIState stays what it was, whatever the clock and
\* whatever outcome the step emits.
C39_EndTimeWrittenOnce ==
    [][(\A i \in Logged("restart") : ~events'[i].flag) =>
         /\ gameEndTime # NoTime =>
               /\ gameEndTime' = gameEndTime
               /\ elapsedTime(EngineAfter, clock') = elapsedTime(Engine, clock)
         /\ (gameEndTime = NoTime /\ gameEndTime' # NoTime) =>
               /\ gameEndTime' = clock'
               /\ Logged("victory") # {} \/ player'.isDead
         /\ (gameEndTime = NoTime /\ (Logged("victory") # {} \/ player'.isDead)) =>
               gameEndTime' = clock']_vars

\* The controlled combatant has died in a tick later than the one that
\* recorded the victory: the outcomes are "Player", then "GAME OVER", and
\* the end time is still that of the victory.
C39_Witness ==
    /\ gameEndTime # NoTime /\ clock > gameEndTime
    /\ player.isDead /\ \E i \in DOMAIN events : events[i].type = "death" /\ events[i].who = 0
    /\ winners # <<>> /\ winners[1] = "Player" /\ winners[Len(winners)] = "GAME OVER"
    /\ elapsedTime(Engine, clock) < clock - gameStartTime

\* The autonomous combatants before the step that are the one with identity
\* id after it.
Was(id) == {npcs[j] : j \in {i \in DOMAIN npcs : npcs[i].id = id}}

\* C40: in a step that does not reset, an autonomous combatant that held a
\* weapon holds the same weapon afterwards, and one that was Fighting is
\* Fighting afterwards; one that is Fighting holds a weapon.
C40_FightingStays ==
    [][(\A i \in Logged("restart") : ~events'[i].flag) =>
         \A k \in DOMAIN npcs' : \A b \in Was(npcs'[k].id) :
            /\ b.weapon # NoWeapon => npcs'[k].weapon = b.weapon
            /\ b.aiState = "FIGHTING" => npcs'[k].aiState = "FIGHTING"
            /\ npcs'[k].aiState = "FIGHTING" => npcs'[k].weapon # NoWeapon]_vars

\* An autonomous combatant that picked its weapon up in this match has
\* fought on with it, emptied part of its magazine and been wounded.
C40_Witness ==
    \E k \in DOMAIN npcs :
        /\ npcs[k].aiState = "FIGHTING" /\ npcs[k].weapon # NoWeapon
        /\ npcs[k].weaponPickupTime > gameStartTime
        /\ npcs[k].currentAmmo < npcs[k].maxAmmo
        /\ npcs[k].health < 100 * HP /\ ~npcs[k].isDead

====
